---- MODULE Spec2Model ----
(***************************************************************************)
(* The real-time task-update channel of the download client: the          *)
(* WebSocketService connection manager (latest revision, the one with the *)
(* heartbeat checker).  One record S holds the service's maps, the        *)
(* WebSocket objects it created, and what the running handler emits;      *)
(* every method and event handler is an operator from S to S, so that     *)
(* handlers that call each other compose the way the code does.           *)
(***************************************************************************)
EXTENDS Integers, Sequences, FiniteSets, TLC

(* ---------------------------------------------------------------- bounds *)
\* WebSocket objects that exist at one time (a slot is reused once its
\* object can no longer raise an event or be reached by a timer).
MaxWs == 2
\* Time passes in steps of ClockStep ms; the time since a task's last
\* heartbeat is followed for MaxAgeSteps steps and no further.
ClockStep == 30000
MaxAgeSteps == 1
\* Backoff retries are counted up to MaxRetries.
MaxRetries == 16
\* rounds of close, retry and reopen the specification of rounds follows
MaxRounds == 10
\* Delayed cleanups of the store pending for one task are followed up to
\* MaxCleanups.
MaxCleanups == 2

(* ------------------------------------------------------ program constants *)
maxReconnectAttempts == 15
heartbeatTimeout == 25000
maxBackoffMs == 30000
\* close codes: the one the service closes with, and the ones it can meet
NormalClosure == 1000
GoingAway == 1001
AbnormalClosure == 1006
InternalError == 1011
NoStatusCode == 1005

(* ------------------------------------------------------------- universes *)
Task == {"t1", "t2"}
\* the tasks the caller of the main specification tracks
MainTasks == {"t1"}
\* Callbacks are the identities of the functions the caller passes; NoCb is
\* `undefined`.  One caller passes data callback 1 with status callback 1,
\* another passes data callback 2 and no status callback.
NoCb == 0
Subscriptions == {<<1, 1>>, <<2, NoCb>>}
\* the subscriptions the caller of the main specification makes
MainSubscriptions == {<<1, 1>>}
\* a callback that unsubscribes its task from inside the call
ReentrantCb == 3
ReentrantTask == "t1"
\* Map entries that are absent
Absent == -1
NoState == "absent"
NoWsId == 0
WsId == 1..MaxWs
NoTimer == [pending |-> FALSE, set |-> FALSE, attempts |-> 0, delay |-> 0, cb |-> NoCb, scb |-> NoCb]

\* Inbound frames: what event.data holds.  json = FALSE is a frame that
\* JSON.parse rejects.
Frame(ty, ts, st, js) == [type |-> ty, timestamp |-> ts, status |-> st, json |-> js]
InboundFrames ==
    { Frame("ping", 7, "", TRUE), Frame("ping", 9, "", TRUE), Frame("pong", 0, "", TRUE),
      Frame("hello_ack", 0, "", TRUE), Frame("connection_status", 0, "degraded", TRUE),
      Frame("progress", 0, "downloading", TRUE), Frame("", 0, "", FALSE),
      \* a JSON object without a type field
      Frame("", 0, "downloading", TRUE) }
\* the timestamp of a frame the client builds: Date.now()
ClientTimestamp == 0
\* The frame attemptReconnect hands to the data callback when it gives up.
TerminalFrame == [type |-> "connection_error", status |-> "error", permanent |-> TRUE]
\* close codes a server (or the browser) ends an open channel with
ServerCloseCodes == {NormalClosure, GoingAway, InternalError}

\* A WebSocket object together with what its handlers' closures captured.
NoWs == [task |-> "", readyState |-> "NONE", failing |-> FALSE, closeCode |-> 0,
         handlers |-> FALSE, cb |-> NoCb, scb |-> NoCb,
         connectionTimeout |-> FALSE, helloTimer |-> FALSE,
         promise |-> "none", catchAttempts |-> Absent, rearm |-> FALSE]

NoOut == [sent |-> <<>>, data |-> <<>>, status |-> <<>>, settled |-> <<>>, created |-> 0,
          seen |-> <<>>]

VARIABLES
    connections,               \* Map taskId -> WebSocket (slot id, NoWsId = no entry)
    callbacks,                 \* Map taskId -> data callback
    connectionStatusCallbacks, \* Map taskId -> status callback
    reconnectTimeouts,         \* Map taskId -> backoff timer handle
    helloAckTimeouts,          \* the `hello_ack_${taskId}` keys of reconnectTimeouts:
                               \* the timer behind the handle only logs, so only
                               \* the presence of the handle is followed
    reconnectAttempts,         \* Map taskId -> number
    pingIntervals,             \* Map taskId -> keepalive interval (the ws it pings)
    heartbeatCheckIntervals,   \* Map taskId -> staleness interval
    connectionState,           \* Map taskId -> connecting | connected | disconnected
    heartbeatAge,              \* Map taskId -> Date.now() - lastHeartbeatReceived
    callbackOrder,             \* the keys of callbacks in insertion order
    connectionOrder,           \* the keys of connections in insertion order
    ws,                        \* the WebSocket objects
    graceTimers,               \* pending 5 s re-checks of the staleness checker
    hung,                      \* a handler that never returns has been entered
    retries,                   \* history: backoff retries run since the subscribe,
                               \* counted by the specification of failing opens
    terminalFrames,            \* history: terminal frames the data callback got
    statusLog,                 \* history: what the status callbacks were told, in
                               \* order, recorded by the specification of rounds
    cleanupTimers              \* the store: taskId -> pending delayed cleanups

vars == <<connections, callbacks, connectionStatusCallbacks, reconnectTimeouts,
          helloAckTimeouts, reconnectAttempts, pingIntervals, heartbeatCheckIntervals,
          connectionState, heartbeatAge, callbackOrder, connectionOrder, ws, graceTimers,
          hung, retries, terminalFrames, statusLog, cleanupTimers>>

\* The service as one value.  out collects what a handler emits (frames
\* sent, callback invocations, promise settlements, sockets created); ok
\* turns FALSE when a handler needs more WebSocket objects than MaxWs.
St == [connections |-> connections, callbacks |-> callbacks,
       connectionStatusCallbacks |-> connectionStatusCallbacks,
       reconnectTimeouts |-> reconnectTimeouts, helloAckTimeouts |-> helloAckTimeouts,
       reconnectAttempts |-> reconnectAttempts, pingIntervals |-> pingIntervals,
       heartbeatCheckIntervals |-> heartbeatCheckIntervals,
       connectionState |-> connectionState,
       heartbeatAge |-> heartbeatAge, callbackOrder |-> callbackOrder,
       connectionOrder |-> connectionOrder, ws |-> ws,
       graceTimers |-> graceTimers, hung |-> hung, out |-> NoOut, ok |-> TRUE]

(* ------------------------------------------------------------ Map keys *)
\* Map.set appends a new key to the iteration order and leaves an existing
\* key where it is; Map.delete removes the key.
KeySet(order, t) ==
    IF \E k \in 1..Len(order) : order[k] = t THEN order ELSE Append(order, t)

KeyDelete(order, t) == SelectSeq(order, LAMBDA x : x # t)

(* ------------------------------------------------------------ emissions *)
\* ws.send(JSON.stringify(f)) on object i
WsSend(S, i, f) == [S EXCEPT !.out.sent = Append(@, [ws |-> i, frame |-> f])]

(* ----------------------------------------------------- WebSocket object *)
\* ws.close(code): closing a socket that is still connecting fails the
\* connection (error and close 1006 follow); closing an open one starts the
\* closing handshake; otherwise nothing.
WsCloseCall(S, i, code) ==
    LET w == S.ws[i] IN
    IF w.readyState = "CONNECTING"
    THEN [S EXCEPT !.ws[i].readyState = "CLOSING", !.ws[i].failing = TRUE]
    ELSE IF w.readyState = "OPEN"
    THEN [S EXCEPT !.ws[i].readyState = "CLOSING", !.ws[i].closeCode = code]
    ELSE S

\* A WebSocket object that is closed, or closing with its onclose and onerror
\* removed, raises no further event the service sees.
Dead(w) == w.readyState = "CLOSED" \/ (w.readyState = "CLOSING" /\ ~w.handlers)

\* Such an object is garbage once no map and no timer refers to it: its slot
\* is free again.  The hello timer of an object that is no longer open finds
\* readyState # OPEN and does nothing, so it holds no object back.
Collectable(S, i) ==
    LET w == S.ws[i] IN
    /\ Dead(w)
    /\ ~w.connectionTimeout /\ ~w.rearm
    /\ S.connections[w.task] # i
    /\ S.pingIntervals[w.task] # i

FreeSlots(S) == {i \in WsId : S.ws[i].readyState = "NONE" \/ Collectable(S, i)}

\* new WebSocket(wsUrl) with the handlers of subscribeToTask attached.
NewWebSocket(S, t, cb, scb) ==
    IF FreeSlots(S) = {} THEN [S EXCEPT !.ok = FALSE]
    ELSE LET i == CHOOSE j \in FreeSlots(S) : \A k \in FreeSlots(S) : j <= k IN
         [S EXCEPT !.ws[i] = [NoWs EXCEPT !.task = t, !.readyState = "CONNECTING",
                                            !.handlers = TRUE, !.cb = cb, !.scb = scb,
                                            !.connectionTimeout = TRUE,
                                            !.promise = "pending"],
                   !.connections[t] = i,
                   !.connectionOrder = KeySet(@, t),
                   !.out.created = @ + 1]

(* -------------------------------------------------------------- timers *)
clearHeartbeatChecker(S, t) == [S EXCEPT !.heartbeatCheckIntervals[t] = FALSE]

clearPingInterval(S, t) == [S EXCEPT !.pingIntervals[t] = NoWsId]

setupPingInterval(S, t, i) == [clearPingInterval(S, t) EXCEPT !.pingIntervals[t] = i]

setupHeartbeatChecker(S, t) ==
    [clearHeartbeatChecker(S, t) EXCEPT !.heartbeatAge[t] = 0,
                                        !.heartbeatCheckIntervals[t] = TRUE]

\* clearTimeout(reconnectTimeouts.get(taskId)); reconnectTimeouts.delete(taskId)
ClearReconnectTimeout(S, t) == [S EXCEPT !.reconnectTimeouts[t] = NoTimer]

Min(a, b) == IF a <= b THEN a ELSE b

RECURSIVE Pow2(_)
Pow2(n) == IF n <= 0 THEN 1 ELSE 2 * Pow2(n - 1)

\* the backoff delay without the 30 s ceiling
BackoffDelayUncapped(attempts) == Pow2(attempts) * 1000

\* Math.min(Math.pow(2, attempts) * 1000, 30000)
BackoffDelay(attempts) == Min(Pow2(attempts) * 1000, maxBackoffMs)

(* ------------------------------------------------ unsubscribeFromTask *)
\* unsubscribeFromTask that ends by marking the task disconnected instead of
\* deleting its connectionState entry, and that stops every keepalive timer
unsubscribeMarksDisconnected(S, t) ==
    LET S1 == [S EXCEPT !.callbacks[t] = NoCb, !.connectionStatusCallbacks[t] = NoCb,
                        !.callbackOrder = KeyDelete(@, t)]
        S2 == ClearReconnectTimeout(S1, t)
        S3 == [clearHeartbeatChecker(S2, t) EXCEPT !.pingIntervals = [u \in Task |-> NoWsId]]
        i  == S3.connections[t]
        S4 == IF i = NoWsId THEN S3
              ELSE [WsCloseCall(S3, i, NormalClosure) EXCEPT !.ws[i].handlers = FALSE,
                                                             !.connections[t] = NoWsId,
                                                             !.connectionOrder = KeyDelete(@, t)]
    IN [S4 EXCEPT !.reconnectAttempts[t] = Absent,
                  !.connectionState[t] = "disconnected",
                  !.heartbeatAge[t] = Absent]

unsubscribeFromTask(S, t) ==
    LET S1 == [S EXCEPT !.callbacks[t] = NoCb, !.connectionStatusCallbacks[t] = NoCb,
                        !.callbackOrder = KeyDelete(@, t)]
        S2 == ClearReconnectTimeout(S1, t)
        S3 == clearHeartbeatChecker(clearPingInterval(S2, t), t)
        i  == S3.connections[t]
        S4 == IF i = NoWsId THEN S3
              ELSE [WsCloseCall(S3, i, NormalClosure) EXCEPT !.ws[i].handlers = FALSE,
                                                             !.connections[t] = NoWsId,
                                                             !.connectionOrder = KeyDelete(@, t)]
    IN [S4 EXCEPT !.reconnectAttempts[t] = Absent,
                  !.connectionState[t] = NoState,
                  !.heartbeatAge[t] = Absent]

(* ------------------------------------------------- callback invocations *)
\* Callbacks are the caller's closures.  The one numbered ReentrantCb was
\* written for task ReentrantTask and calls unsubscribeFromTask for it before
\* it returns; every other callback only looks at what it is given.  seen
\* keeps what a status callback finds recorded in the service while it runs.
StatusCall(S, scb, v) ==
    IF scb = NoCb THEN S
    ELSE LET S1 == [S EXCEPT !.out.status = Append(@, [cb |-> scb, status |-> v]),
                             !.out.seen = Append(@, [status |-> v,
                                                     connectionState |-> S.connectionState,
                                                     heartbeatAge |-> S.heartbeatAge])]
         IN IF scb = ReentrantCb THEN unsubscribeFromTask(S1, ReentrantTask) ELSE S1

DataCall(S, cb, f) ==
    IF cb = NoCb THEN S
    ELSE LET S1 == [S EXCEPT !.out.data = Append(@, [cb |-> cb, frame |-> f])]
         IN IF cb = ReentrantCb THEN unsubscribeFromTask(S1, ReentrantTask) ELSE S1

(* --------------------------------------------------- attemptReconnect *)
\* attemptReconnect without the test of the attempt budget
attemptReconnectUncapped(S, t, cb, scb) ==
    LET attempts == IF S.reconnectAttempts[t] = Absent THEN 0 ELSE S.reconnectAttempts[t]
        S1 == [S EXCEPT !.reconnectTimeouts[t].pending = FALSE]
    IN [S1 EXCEPT !.reconnectAttempts[t] = attempts + 1,
                  !.reconnectTimeouts[t] =
                      [pending |-> TRUE, set |-> TRUE, attempts |-> attempts,
                       delay |-> BackoffDelay(attempts), cb |-> cb, scb |-> scb]]

attemptReconnect(S, t, cb, scb) ==
    LET attempts == IF S.reconnectAttempts[t] = Absent THEN 0 ELSE S.reconnectAttempts[t]
        \* clearTimeout of the handle, which stays in the map
        S1 == [S EXCEPT !.reconnectTimeouts[t].pending = FALSE]
    IN IF attempts >= maxReconnectAttempts
       THEN IF S1.callbacks[t] # NoCb THEN DataCall(S1, cb, TerminalFrame) ELSE S1
       ELSE [S1 EXCEPT !.reconnectAttempts[t] = attempts + 1,
                       !.reconnectTimeouts[t] =
                           [pending |-> TRUE, set |-> TRUE, attempts |-> attempts,
                            delay |-> BackoffDelay(attempts), cb |-> cb, scb |-> scb]]

\* reject(...) of the promise subscribeToTask returned for object i, and the
\* .catch the backoff retry attached to it (a microtask that runs once the
\* rejecting handler has returned; both callers reject as their last step).
Reject(S, i) ==
    LET w == S.ws[i] IN
    IF w.promise # "pending" THEN S
    ELSE LET S1 == [S EXCEPT !.ws[i].promise = "rejected",
                             !.out.settled = Append(@, [ws |-> i, how |-> "rejected"])]
         IN IF w.catchAttempts = Absent THEN S1
            ELSE IF w.catchAttempts + 1 < maxReconnectAttempts
            THEN [S1 EXCEPT !.ws[i].rearm = TRUE]
            ELSE IF S1.callbacks[w.task] # NoCb
            THEN DataCall(S1, w.cb, TerminalFrame)
            ELSE S1

Resolve(S, i) ==
    IF S.ws[i].promise # "pending" THEN S
    ELSE [S EXCEPT !.ws[i].promise = "resolved",
                   !.out.settled = Append(@, [ws |-> i, how |-> "resolved"])]

(* ---------------------------------------------------- subscribeToTask *)
subscribeToTask(S, t, cb, scb) ==
    LET S1 == IF S.connections[t] # NoWsId THEN unsubscribeFromTask(S, t) ELSE S
        S2 == [S1 EXCEPT !.callbacks[t] = cb,
                         !.callbackOrder = KeySet(@, t),
                         !.connectionStatusCallbacks[t] = IF scb # NoCb THEN scb ELSE @,
                         !.connectionState[t] = "connecting"]
        S3 == [StatusCall(S2, scb, "connecting") EXCEPT !.reconnectAttempts[t] = 0]
    IN NewWebSocket(S3, t, cb, scb)

\* getConnectionState without the `|| 'disconnected'` default
getConnectionStateRaw(S, t) == S.connectionState[t]

getConnectionState(S, t) ==
    IF S.connectionState[t] = NoState THEN "disconnected" ELSE S.connectionState[t]

isSubscribed(S, t) == S.callbacks[t] # NoCb

(* ----------------------------------------------------------- reconnect *)
\* reconnect without the ws.close() of the channel it replaces
reconnectKeepsOldOpen(S, t) ==
    LET cb  == S.callbacks[t]
        scb == S.connectionStatusCallbacks[t]
        S1  == [S EXCEPT !.connections[t] = NoWsId,
                         !.connectionOrder = KeyDelete(@, t)]
        S2  == clearHeartbeatChecker(clearPingInterval(S1, t), t)
        S3  == ClearReconnectTimeout([S2 EXCEPT !.reconnectAttempts[t] = 0], t)
        S4  == StatusCall([S3 EXCEPT !.connectionState[t] = "connecting"], scb, "connecting")
    IN subscribeToTask(S4, t, cb, scb)

\* reconnect that leaves a pending backoff timer alone
reconnectKeepsBackoff(S, t) ==
    LET cb  == S.callbacks[t]
        scb == S.connectionStatusCallbacks[t]
        i   == S.connections[t]
        S1  == IF i = NoWsId THEN S
               ELSE [(IF S.ws[i].readyState # "CLOSED"
                      THEN WsCloseCall(S, i, NormalClosure) ELSE S)
                     EXCEPT !.connections[t] = NoWsId,
                            !.connectionOrder = KeyDelete(@, t)]
        S2  == clearHeartbeatChecker(clearPingInterval(S1, t), t)
        S3  == [S2 EXCEPT !.reconnectAttempts[t] = 0]
        S4  == StatusCall([S3 EXCEPT !.connectionState[t] = "connecting"], scb, "connecting")
    IN subscribeToTask(S4, t, cb, scb)

\* reconnect(taskId) once a callback is known to be registered
reconnectRegistered(S, t) ==
    LET cb  == S.callbacks[t]
        scb == S.connectionStatusCallbacks[t]
        i   == S.connections[t]
        S1  == IF i = NoWsId THEN S
               ELSE [(IF S.ws[i].readyState # "CLOSED"
                      THEN WsCloseCall(S, i, NormalClosure) ELSE S)
                     EXCEPT !.connections[t] = NoWsId,
                            !.connectionOrder = KeyDelete(@, t)]
        S2  == clearHeartbeatChecker(clearPingInterval(S1, t), t)
        S3  == ClearReconnectTimeout([S2 EXCEPT !.reconnectAttempts[t] = 0], t)
        S4  == StatusCall([S3 EXCEPT !.connectionState[t] = "connecting"], scb, "connecting")
    IN subscribeToTask(S4, t, cb, scb)

\* reconnect without the test for a registered data callback
reconnectUnguarded(S, t) == reconnectRegistered(S, t)

\* reconnect(taskId): a rejected promise, and nothing else, when no data
\* callback is registered
reconnect(S, t) ==
    IF S.callbacks[t] = NoCb
    THEN [S EXCEPT !.out.settled = Append(@, [ws |-> NoWsId, how |-> "rejected"])]
    ELSE reconnectRegistered(S, t)

\* sendPing(taskId)
sendPing(S, t) ==
    LET i == S.connections[t] IN
    IF i = NoWsId \/ S.ws[i].readyState # "OPEN" THEN S
    ELSE WsSend(S, i, [type |-> "ping", timestamp |-> ClientTimestamp, task_id |-> t])

(* ------------------------------------------------------- event handlers *)
\* ws.onopen of object i
onopen(S, i) ==
    LET t  == S.ws[i].task
        S1 == [S EXCEPT !.ws[i].connectionTimeout = FALSE,
                        !.connectionState[t] = "connected",
                        !.heartbeatAge[t] = 0]
        S2 == StatusCall(S1, S1.connectionStatusCallbacks[t], "connected")
        S3 == IF S2.reconnectTimeouts[t].set THEN ClearReconnectTimeout(S2, t) ELSE S2
        S4 == [S3 EXCEPT !.reconnectAttempts[t] = 0]
        S5 == setupHeartbeatChecker(setupPingInterval(S4, t, i), t)
    IN Resolve([S5 EXCEPT !.ws[i].helloTimer = TRUE], i)

\* the router with the pong stamped by the client's clock and the ping
\* passed on to the data callback
routeMessageForwardsPing(S, i, f) ==
    LET t == S.ws[i].task IN
    CASE f.type = "pong" -> S
      [] f.type = "hello_ack" -> [S EXCEPT !.helloAckTimeouts[t] = FALSE]
      [] f.type = "connection_status" ->
            StatusCall(S, S.connectionStatusCallbacks[t], f.status)
      [] f.type = "ping" ->
            DataCall(WsSend(S, i, [type |-> "pong", timestamp |-> ClientTimestamp,
                                   task_id |-> t, client_timestamp |-> ClientTimestamp]),
                     S.callbacks[t], f)
      [] OTHER -> DataCall(S, S.callbacks[t], f)

\* the router with a connection_status frame handed to the data callback as
\* well
routeMessageStatusToData(S, i, f) ==
    LET t == S.ws[i].task IN
    CASE f.type = "pong" -> S
      [] f.type = "hello_ack" -> [S EXCEPT !.helloAckTimeouts[t] = FALSE]
      [] f.type = "connection_status" ->
            DataCall(StatusCall(S, S.connectionStatusCallbacks[t], f.status),
                     S.callbacks[t], f)
      [] f.type = "ping" ->
            IF S.ws[i].readyState = "OPEN"
            THEN WsSend(S, i, [type |-> "pong", timestamp |-> f.timestamp, task_id |-> t,
                               client_timestamp |-> ClientTimestamp])
            ELSE S
      [] OTHER -> DataCall(S, S.callbacks[t], f)

\* the router with a frame that has no type field dropped
routeMessageDropsUntyped(S, i, f) ==
    LET t == S.ws[i].task IN
    CASE f.type = "pong" -> S
      [] f.type = "hello_ack" -> [S EXCEPT !.helloAckTimeouts[t] = FALSE]
      [] f.type = "connection_status" ->
            StatusCall(S, S.connectionStatusCallbacks[t], f.status)
      [] f.type = "ping" ->
            IF S.ws[i].readyState = "OPEN"
            THEN WsSend(S, i, [type |-> "pong", timestamp |-> f.timestamp, task_id |-> t,
                               client_timestamp |-> ClientTimestamp])
            ELSE S
      [] f.type = "" -> S
      [] OTHER -> DataCall(S, S.callbacks[t], f)

\* ws.onmessage of object i, after the heartbeat refresh and the parse
routeMessage(S, i, f) ==
    LET t == S.ws[i].task IN
    CASE f.type = "pong" -> S
      [] f.type = "hello_ack" -> [S EXCEPT !.helloAckTimeouts[t] = FALSE]
      [] f.type = "connection_status" ->
            StatusCall(S, S.connectionStatusCallbacks[t], f.status)
      [] f.type = "ping" ->
            IF S.ws[i].readyState = "OPEN"
            THEN WsSend(S, i, [type |-> "pong", timestamp |-> f.timestamp, task_id |-> t,
                               client_timestamp |-> ClientTimestamp])
            ELSE S
      [] OTHER -> DataCall(S, S.callbacks[t], f)

\* onmessage with the parse first: a frame that does not parse is dropped
\* before the heartbeat refresh and the promotion to connected
onmessageParsesFirst(S, i, f) ==
    LET t  == S.ws[i].task
        S1 == [S EXCEPT !.heartbeatAge[t] = 0]
        S2 == IF S1.connectionState[t] # "connected"
              THEN StatusCall([S1 EXCEPT !.connectionState[t] = "connected"],
                              S1.connectionStatusCallbacks[t], "connected")
              ELSE S1
    IN IF ~f.json THEN S ELSE routeMessage(S2, i, f)

\* onmessage that tells the status callback before it records anything
onmessageNotifiesFirst(S, i, f) ==
    LET t  == S.ws[i].task
        S1 == IF S.connectionState[t] # "connected"
              THEN StatusCall(S, S.connectionStatusCallbacks[t], "connected")
              ELSE S
        S2 == [S1 EXCEPT !.heartbeatAge[t] = 0, !.connectionState[t] = "connected"]
    IN IF ~f.json THEN S2 ELSE routeMessage(S2, i, f)

\* onmessage that gives up the channel when a frame does not parse
onmessageClosesOnGarbage(S, i, f) ==
    LET t  == S.ws[i].task
        S1 == [S EXCEPT !.heartbeatAge[t] = 0]
        S2 == IF S1.connectionState[t] # "connected"
              THEN StatusCall([S1 EXCEPT !.connectionState[t] = "connected"],
                              S1.connectionStatusCallbacks[t], "connected")
              ELSE S1
    IN IF ~f.json THEN WsCloseCall(S2, i, InternalError) ELSE routeMessage(S2, i, f)

onmessage(S, i, f) ==
    LET t  == S.ws[i].task
        S1 == [S EXCEPT !.heartbeatAge[t] = 0]
        S2 == IF S1.connectionState[t] # "connected"
              THEN StatusCall([S1 EXCEPT !.connectionState[t] = "connected"],
                              S1.connectionStatusCallbacks[t], "connected")
              ELSE S1
    IN IF ~f.json THEN S2 ELSE routeMessage(S2, i, f)

\* ws.onerror of object i
onerror(S, i) ==
    LET t  == S.ws[i].task
        S1 == [S EXCEPT !.connectionState[t] = "disconnected"]
        S2 == StatusCall(S1, S1.connectionStatusCallbacks[t], "disconnected")
        S3 == clearHeartbeatChecker([S2 EXCEPT !.ws[i].connectionTimeout = FALSE], t)
        S4 == attemptReconnect(S3, t, S.ws[i].cb, S.ws[i].scb)
    IN IF S4.connections[t] = NoWsId THEN Reject(S4, i) ELSE S4

\* onclose without the test that the state is not disconnected already
oncloseAlwaysNotifies(S, i, code) ==
    LET t  == S.ws[i].task
        S1 == [S EXCEPT !.connectionState[t] = "disconnected"]
        S2 == StatusCall(S1, S1.connectionStatusCallbacks[t], "disconnected")
        S3 == clearHeartbeatChecker(clearPingInterval(S2, t), t)
    IN IF code # NormalClosure /\ S3.callbacks[t] # NoCb
       THEN attemptReconnect(S3, t, S3.callbacks[t], S3.connectionStatusCallbacks[t])
       ELSE S3

\* ws.onclose of object i with event.code = code
onclose(S, i, code) ==
    LET t == S.ws[i].task IN
    IF S.connectionState[t] = "disconnected" THEN S
    ELSE LET S1 == [S EXCEPT !.connectionState[t] = "disconnected"]
             S2 == StatusCall(S1, S1.connectionStatusCallbacks[t], "disconnected")
             S3 == clearHeartbeatChecker(clearPingInterval(S2, t), t)
         IN IF code # NormalClosure /\ S3.callbacks[t] # NoCb
            THEN attemptReconnect(S3, t, S3.callbacks[t], S3.connectionStatusCallbacks[t])
            ELSE S3

(* --------------------------------------------------------- timer bodies *)
\* now - (lastHeartbeatReceived.get(taskId) || 0) > heartbeatTimeout: with
\* no entry the difference is Date.now() itself
Stale(S, t) == S.heartbeatAge[t] = Absent \/ S.heartbeatAge[t] > heartbeatTimeout

\* the staleness check without the forced reconnect of a connected task
heartbeatCheckSkipsConnected(S, t) ==
    IF ~Stale(S, t) THEN S
    ELSE IF S.connectionState[t] = "connected" THEN S
    ELSE IF S.connections[t] # NoWsId
    THEN IF S.ws[S.connections[t]].readyState = "OPEN"
         THEN [sendPing(S, t) EXCEPT !.graceTimers[t] = TRUE]
         ELSE reconnect(S, t)
    ELSE IF S.callbacks[t] # NoCb THEN reconnect(S, t) ELSE S

\* the setInterval body of setupHeartbeatChecker
heartbeatCheck(S, t) ==
    IF ~Stale(S, t) THEN S
    ELSE IF S.connectionState[t] = "connected" THEN reconnect(S, t)
    ELSE IF S.connections[t] # NoWsId
    THEN IF S.ws[S.connections[t]].readyState = "OPEN"
         THEN [sendPing(S, t) EXCEPT !.graceTimers[t] = TRUE]
         ELSE reconnect(S, t)
    ELSE IF S.callbacks[t] # NoCb THEN reconnect(S, t) ELSE S

\* the 5 s re-check without its test: it reconnects whatever has arrived
graceCheckAlwaysReconnects(S, t) == reconnect([S EXCEPT !.graceTimers[t] = FALSE], t)

\* the 5 s re-check the staleness checker arms after its probe
graceCheck(S, t) ==
    LET S1 == [S EXCEPT !.graceTimers[t] = FALSE]
    IN IF Stale(S1, t) THEN reconnect(S1, t) ELSE S1

\* the setInterval body of setupPingInterval(taskId, ws)
pingTick(S, t) ==
    LET i == S.pingIntervals[t] IN
    IF S.ws[i].readyState = "OPEN"
    THEN WsSend(S, i, [type |-> "ping", timestamp |-> ClientTimestamp, task_id |-> t])
    ELSE clearPingInterval(S, t)

\* the 500 ms timer without its test of ws.readyState
helloFireSendsAnyway(S, i) ==
    LET t  == S.ws[i].task
        S1 == [S EXCEPT !.ws[i].helloTimer = FALSE]
    IN [WsSend(S1, i, [type |-> "hello", timestamp |-> ClientTimestamp, task_id |-> t])
        EXCEPT !.helloAckTimeouts[t] = TRUE]

\* the 500 ms timer of onopen
helloFire(S, i) ==
    LET t  == S.ws[i].task
        S1 == [S EXCEPT !.ws[i].helloTimer = FALSE]
    IN IF S1.ws[i].readyState = "OPEN"
       THEN [WsSend(S1, i, [type |-> "hello", timestamp |-> ClientTimestamp, task_id |-> t])
             EXCEPT !.helloAckTimeouts[t] = TRUE]
       ELSE S1

\* the 15 s connectionTimeout of subscribeToTask
connectionTimeoutFire(S, i) ==
    LET t  == S.ws[i].task
        S1 == [S EXCEPT !.ws[i].connectionTimeout = FALSE]
    IN IF S1.connectionState[t] # "connecting" THEN S1
       ELSE LET S2 == WsCloseCall(S1, i, NoStatusCode)
                S3 == [S2 EXCEPT !.connectionState[t] = "disconnected"]
            IN Reject(StatusCall(S3, S.ws[i].scb, "disconnected"), i)

\* the condition of the backoff timer without the test of the state
retryRunsAnyState(S, t) == S.callbacks[t] # NoCb

\* the condition under which the backoff timer reconnects
retryRuns(S, t) == S.connectionState[t] = "disconnected" /\ S.callbacks[t] # NoCb

\* the backoff timer with a subscribeToTask that returns at once for a task
\* whose data callback is registered
retryFireReturnsEarly(S, t) ==
    LET S1 == [S EXCEPT !.reconnectTimeouts[t].pending = FALSE]
    IN IF ~retryRuns(S1, t) THEN S1
       ELSE LET i == S1.connections[t] IN
            IF i = NoWsId THEN S1
            ELSE [(IF S1.ws[i].readyState # "CLOSED"
                   THEN WsCloseCall(S1, i, NormalClosure) ELSE S1)
                  EXCEPT !.connections[t] = NoWsId,
                         !.connectionOrder = KeyDelete(@, t)]

\* the backoff timer attemptReconnect armed
retryFire(S, t) ==
    LET tm == S.reconnectTimeouts[t]
        S1 == [S EXCEPT !.reconnectTimeouts[t].pending = FALSE]
    IN IF ~retryRuns(S1, t) THEN S1
       ELSE LET i  == S1.connections[t]
                S2 == IF i = NoWsId THEN S1
                      ELSE [(IF S1.ws[i].readyState # "CLOSED"
                             THEN WsCloseCall(S1, i, NormalClosure) ELSE S1)
                            EXCEPT !.connections[t] = NoWsId,
                                   !.connectionOrder = KeyDelete(@, t)]
                S3 == subscribeToTask(S2, t, tm.cb, tm.scb)
            IN IF ~S3.ok THEN S3
               ELSE [S3 EXCEPT !.ws[S3.connections[t]].catchAttempts = tm.attempts]

\* the 100 ms timer the retry's .catch armed
rearmFire(S, i) ==
    attemptReconnect([S EXCEPT !.ws[i].rearm = FALSE], S.ws[i].task, S.ws[i].cb, S.ws[i].scb)

(* --------------------------------------------------- window listeners *)
\* handleOnline: callbacks.forEach over the live map.  subscribeToTask on a
\* task that holds a WebSocket deletes and re-adds its callbacks entry, so
\* forEach meets the entry again, in state connecting, and resubscribes it
\* again: the loop never ends.
RECURSIVE handleOnlineFrom(_, _)
handleOnlineFrom(S, k) ==
    IF k > Len(S.callbackOrder) \/ ~S.ok THEN S
    ELSE LET t == S.callbackOrder[k] IN
         IF S.connectionState[t] = "connected" THEN handleOnlineFrom(S, k + 1)
         ELSE IF S.connections[t] # NoWsId
         THEN [subscribeToTask(S, t, S.callbacks[t], S.connectionStatusCallbacks[t])
               EXCEPT !.hung = TRUE]
         ELSE handleOnlineFrom(
                  subscribeToTask(S, t, S.callbacks[t], S.connectionStatusCallbacks[t]),
                  k + 1)

handleOnline(S) == handleOnlineFrom(S, 1)

\* handleOffline that also closes the WebSocket of every task it marks
RECURSIVE handleOfflineClosesChannels(_, _)
handleOfflineClosesChannels(S, k) ==
    IF k > Len(S.connectionOrder) THEN S
    ELSE LET t == S.connectionOrder[k] IN
         handleOfflineClosesChannels(
             WsCloseCall(StatusCall([S EXCEPT !.connectionState[t] = "disconnected"],
                                    S.connectionStatusCallbacks[t], "disconnected"),
                         S.connections[t], NormalClosure),
             k + 1)

\* handleOffline: connections.forEach
RECURSIVE handleOfflineFrom(_, _)
handleOfflineFrom(S, k) ==
    IF k > Len(S.connectionOrder) THEN S
    ELSE LET t == S.connectionOrder[k] IN
         handleOfflineFrom(
             StatusCall([S EXCEPT !.connectionState[t] = "disconnected"],
                        S.connectionStatusCallbacks[t], "disconnected"),
             k + 1)

handleOffline(S) == handleOfflineFrom(S, 1)

\* handleVisibilityChange with the document visible: callbacks.forEach;
\* reconnect re-sets the entry of a key that is still present, so the order
\* stays as it is
RECURSIVE handleVisibilityChangeFrom(_, _)
handleVisibilityChangeFrom(S, k) ==
    IF k > Len(S.callbackOrder) \/ ~S.ok THEN S
    ELSE LET t == S.callbackOrder[k] IN
         IF S.connectionState[t] # "connected"
         THEN handleVisibilityChangeFrom(reconnect(S, t), k + 1)
         ELSE handleVisibilityChangeFrom(sendPing(S, t), k + 1)

handleVisibilityChange(S) == handleVisibilityChangeFrom(S, 1)

(* ------------------------------------------------------------- actions *)
\* What is left of a dead object is what its pending timers can still read.
Remains(w) ==
    LET catching == w.promise = "pending" /\ w.catchAttempts # Absent /\ w.connectionTimeout
    IN [w EXCEPT !.readyState = "CLOSED", !.failing = FALSE, !.closeCode = 0,
                 !.handlers = FALSE, !.helloTimer = FALSE,
                 !.cb = IF w.rearm \/ catching THEN @ ELSE NoCb,
                 !.scb = IF w.rearm \/ w.connectionTimeout THEN @ ELSE NoCb,
                 !.catchAttempts = IF catching THEN @ ELSE Absent]

Sweep(S) ==
    [S EXCEPT !.ws = [i \in WsId |->
        IF S.ws[i].readyState = "NONE" THEN NoWs
        ELSE IF Collectable(S, i) THEN NoWs
        ELSE IF Dead(S.ws[i]) THEN Remains(S.ws[i])
        ELSE [S.ws[i] EXCEPT !.helloTimer = @ /\ S.ws[i].readyState = "OPEN"]]]

\* Object identities carry no meaning: the objects are renumbered, the one
\* in connections first, then by how far their life has run.
StateRank(rs) ==
    CASE rs = "CONNECTING" -> 1 [] rs = "OPEN" -> 2 [] rs = "CLOSING" -> 3
      [] rs = "CLOSED" -> 4 [] OTHER -> 5

SlotKey(S, i) ==
    LET w == S.ws[i] IN
    IF w.readyState = "NONE" THEN 1000
    ELSE (IF w.task = "t1" THEN 0 ELSE 500)
         + (IF S.connections[w.task] = i THEN 0 ELSE 100)
         + StateRank(w.readyState) * 16
         + (IF w.connectionTimeout THEN 8 ELSE 0)
         + (IF w.rearm THEN 4 ELSE 0)
         + (IF w.handlers THEN 2 ELSE 0)
         + (IF w.failing THEN 1 ELSE 0)

SlotKeys(S) == [i \in WsId |-> SlotKey(S, i)]

Before(K, j, i) == K[j] < K[i] \/ (K[j] = K[i] /\ j < i)

SlotPerm(K) == [i \in WsId |-> 1 + Cardinality({j \in WsId : Before(K, j, i)})]

Renumber(S, P) ==
    LET old(k) == CHOOSE i \in WsId : P[i] = k
        new(i) == IF i = NoWsId THEN NoWsId ELSE P[i]
    IN [S EXCEPT !.ws = [k \in WsId |-> S.ws[old(k)]],
                 !.connections = [t \in Task |-> new(S.connections[t])],
                 !.pingIntervals = [t \in Task |-> new(S.pingIntervals[t])]]

\* One handler runs to completion: the service becomes R, swept and
\* renumbered.
Run(R) ==
    /\ ~hung
    /\ \E W \in {Sweep(R)} : \E K \in {SlotKeys(W)} : \E P \in {SlotPerm(K)} :
       \E G \in {IF \A i \in WsId : P[i] = i THEN W ELSE Renumber(W, P)} :
       /\ G.ok
       /\ connections' = G.connections
       /\ callbacks' = G.callbacks
       /\ connectionStatusCallbacks' = G.connectionStatusCallbacks
       /\ reconnectTimeouts' = G.reconnectTimeouts
       /\ helloAckTimeouts' = G.helloAckTimeouts
       /\ reconnectAttempts' = G.reconnectAttempts
       /\ pingIntervals' = G.pingIntervals
       /\ heartbeatCheckIntervals' = G.heartbeatCheckIntervals
       /\ connectionState' = G.connectionState
       /\ heartbeatAge' = G.heartbeatAge
       /\ callbackOrder' = G.callbackOrder
       /\ connectionOrder' = G.connectionOrder
       /\ ws' = G.ws
       /\ graceTimers' = G.graceTimers
       /\ hung' = G.hung
       /\ terminalFrames' =
              terminalFrames + Len(SelectSeq(G.out.data, LAMBDA d : d.frame = TerminalFrame))

Commit(R) == Run(R) /\ UNCHANGED <<retries, statusLog, cleanupTimers>>

(* the caller *)
Subscribe(t, cb, scb) == Commit(subscribeToTask(St, t, cb, scb))

Unsubscribe(t) == Commit(unsubscribeFromTask(St, t))

Reconnect(t) == Commit(reconnect(St, t))

(* the window *)
Online == Commit(handleOnline(St))

Offline == Commit(handleOffline(St))

Visible == Commit(handleVisibilityChange(St))

(* the transport: a socket opens only while it is connecting (close() on a
   connecting socket fails it), and message events are dispatched only
   while readyState is OPEN *)
WsOpen(i) ==
    /\ ws[i].readyState = "CONNECTING"
    /\ Commit(onopen([St EXCEPT !.ws[i].readyState = "OPEN"], i))

WsMessage(i, f) ==
    /\ ws[i].readyState = "OPEN"
    /\ Commit(onmessage(St, i, f))

\* The connection ends cleanly: the server closes an open channel, or the
\* closing handshake the client started completes.
WsClosed(i, code) ==
    /\ \/ ws[i].readyState = "OPEN" /\ code \in ServerCloseCodes
       \/ ws[i].readyState = "CLOSING" /\ ~ws[i].failing /\ code = ws[i].closeCode
    /\ LET S1 == [St EXCEPT !.ws[i].readyState = "CLOSED"]
       IN Commit(IF ws[i].handlers THEN onclose(S1, i, code) ELSE S1)

\* The connection fails: error, then close 1006, in one task.
WsFailed(i) ==
    /\ ws[i].readyState \in {"CONNECTING", "OPEN", "CLOSING"}
    /\ LET S1 == [St EXCEPT !.ws[i].readyState = "CLOSED"]
       IN Commit(IF ws[i].handlers THEN onclose(onerror(S1, i), i, AbnormalClosure) ELSE S1)

(* the timers *)
ConnectionTimeout(i) ==
    /\ ws[i].connectionTimeout
    /\ Commit(connectionTimeoutFire(St, i))

HelloTimer(i) ==
    /\ ws[i].helloTimer
    /\ Commit(helloFire(St, i))

PingTimer(t) ==
    /\ pingIntervals[t] # NoWsId
    /\ Commit(pingTick(St, t))

HeartbeatTimer(t) ==
    /\ heartbeatCheckIntervals[t]
    /\ Commit(heartbeatCheck(St, t))

GraceTimer(t) ==
    /\ graceTimers[t]
    /\ Commit(graceCheck(St, t))

RetryTimer(t) ==
    /\ reconnectTimeouts[t].pending
    /\ Commit(retryFire(St, t))

RearmTimer(i) ==
    /\ ws[i].rearm
    /\ Commit(rearmFire(St, i))

\* Time passes: every heartbeat grows older.
Tick ==
    /\ ~hung
    /\ \E t \in Task : heartbeatAge[t] # Absent /\ heartbeatAge[t] < MaxAgeSteps * ClockStep
    /\ heartbeatAge' = [t \in Task |->
           IF heartbeatAge[t] = Absent THEN Absent
           ELSE Min(heartbeatAge[t] + ClockStep, MaxAgeSteps * ClockStep)]
    /\ UNCHANGED <<connections, callbacks, connectionStatusCallbacks, reconnectTimeouts,
                   helloAckTimeouts, reconnectAttempts, pingIntervals,
                   heartbeatCheckIntervals, connectionState, callbackOrder,
                   connectionOrder, ws, graceTimers, hung, retries, terminalFrames,
                   statusLog, cleanupTimers>>

Init ==
    /\ connections = [t \in Task |-> NoWsId]
    /\ callbacks = [t \in Task |-> NoCb]
    /\ connectionStatusCallbacks = [t \in Task |-> NoCb]
    /\ reconnectTimeouts = [t \in Task |-> NoTimer]
    /\ helloAckTimeouts = [t \in Task |-> FALSE]
    /\ reconnectAttempts = [t \in Task |-> Absent]
    /\ pingIntervals = [t \in Task |-> NoWsId]
    /\ heartbeatCheckIntervals = [t \in Task |-> FALSE]
    /\ connectionState = [t \in Task |-> NoState]
    /\ heartbeatAge = [t \in Task |-> Absent]
    /\ callbackOrder = <<>>
    /\ connectionOrder = <<>>
    /\ ws = [i \in WsId |-> NoWs]
    /\ graceTimers = [t \in Task |-> FALSE]
    /\ hung = FALSE
    /\ retries = 0
    /\ terminalFrames = 0
    /\ statusLog = <<>>
    /\ cleanupTimers = [t \in Task |-> 0]

Next ==
    \/ \E t \in MainTasks, c \in MainSubscriptions : Subscribe(t, c[1], c[2])
    \/ \E t \in MainTasks : Unsubscribe(t)
    \/ \E t \in MainTasks : Reconnect(t)
    \/ Online
    \/ Offline
    \/ Visible
    \/ \E i \in WsId : WsOpen(i)
    \/ \E i \in WsId, f \in InboundFrames : WsMessage(i, f)
    \/ \E i \in WsId, code \in ServerCloseCodes \cup {NoStatusCode} : WsClosed(i, code)
    \/ \E i \in WsId : WsFailed(i)
    \/ \E i \in WsId : ConnectionTimeout(i)
    \/ \E i \in WsId : HelloTimer(i)
    \/ \E t \in Task : PingTimer(t)
    \/ \E t \in Task : HeartbeatTimer(t)
    \/ \E t \in Task : GraceTimer(t)
    \/ \E t \in Task : RetryTimer(t)
    \/ \E i \in WsId : RearmTimer(i)
    \/ Tick

Spec == Init /\ [][Next]_vars

(* ------------------------------------------------- every open attempt fails *)
\* The caller subscribes once and calls nothing else; no channel ever opens.
SubscribeOnce(t, cb, scb) == ~isSubscribed(St, t) /\ Subscribe(t, cb, scb)

\* the backoff timer fires: one more retry has run
CountedRetry(t) ==
    /\ reconnectTimeouts[t].pending
    /\ retries < MaxRetries
    /\ Run(retryFire(St, t))
    /\ retries' = retries + (IF retryRuns(St, t) THEN 1 ELSE 0)
    /\ UNCHANGED <<statusLog, cleanupTimers>>

FailNext ==
    \/ \E t \in MainTasks, c \in MainSubscriptions : SubscribeOnce(t, c[1], c[2])
    \/ \E i \in WsId : WsFailed(i)
    \/ \E i \in WsId : ConnectionTimeout(i)
    \/ \E i \in WsId : RearmTimer(i)
    \/ \E t \in MainTasks : CountedRetry(t)

FailSpec == Init /\ [][FailNext]_vars

(* ------------------------------------- rounds of close, retry and reopen *)
\* The caller subscribes once; every channel opens, works for a while and
\* ends abnormally; the backoff timer brings the next one.  Every status
\* notification is recorded.
Observed(R) ==
    /\ Run(R)
    /\ statusLog' = statusLog \o [k \in 1..Len(R.out.status) |-> R.out.status[k].status]
    /\ UNCHANGED cleanupTimers

\* close codes of a channel that ends abnormally without an error event
AbnormalCodes == {AbnormalClosure, InternalError}

\* frames of a working channel: the server announces no status of its own
WorkFrames == {f \in InboundFrames : f.type # "connection_status"}

RoundSubscribe(t, cb, scb) ==
    /\ ~isSubscribed(St, t)
    /\ Observed(subscribeToTask(St, t, cb, scb))
    /\ UNCHANGED retries

RoundOpen(i) ==
    /\ ws[i].readyState = "CONNECTING"
    /\ Observed(onopen([St EXCEPT !.ws[i].readyState = "OPEN"], i))
    /\ UNCHANGED retries

RoundMessage(i, f) ==
    /\ ws[i].readyState = "OPEN"
    /\ Observed(onmessage(St, i, f))
    /\ UNCHANGED retries

RoundFailed(i) ==
    /\ ws[i].readyState = "OPEN"
    /\ Observed(onclose(onerror([St EXCEPT !.ws[i].readyState = "CLOSED"], i),
                        i, AbnormalClosure))
    /\ UNCHANGED retries

RoundClosed(i, code) ==
    /\ ws[i].readyState = "OPEN"
    /\ Observed(onclose([St EXCEPT !.ws[i].readyState = "CLOSED"], i, code))
    /\ UNCHANGED retries

RoundHello(i) ==
    /\ ws[i].helloTimer
    /\ Observed(helloFire(St, i))
    /\ UNCHANGED retries

RoundPing(t) ==
    /\ pingIntervals[t] # NoWsId
    /\ Observed(pingTick(St, t))
    /\ UNCHANGED retries

RoundHeartbeat(t) ==
    /\ heartbeatCheckIntervals[t]
    /\ Observed(heartbeatCheck(St, t))
    /\ UNCHANGED retries

RoundRetry(t) ==
    /\ reconnectTimeouts[t].pending
    /\ retries < MaxRounds
    /\ Observed(retryFire(St, t))
    /\ retries' = retries + 1

RoundsNext ==
    \/ \E t \in MainTasks, c \in MainSubscriptions : RoundSubscribe(t, c[1], c[2])
    \/ \E i \in WsId : RoundOpen(i)
    \/ \E i \in WsId, f \in WorkFrames : RoundMessage(i, f)
    \/ \E i \in WsId : RoundFailed(i)
    \/ \E i \in WsId, code \in AbnormalCodes : RoundClosed(i, code)
    \/ \E i \in WsId : RoundHello(i)
    \/ \E t \in MainTasks : RoundPing(t)
    \/ \E t \in MainTasks : RoundHeartbeat(t)
    \/ \E t \in MainTasks : RoundRetry(t)

RoundsSpec == Init /\ [][RoundsNext]_vars

(* ------------------------------------------------------------ two tasks *)
\* The caller follows two tasks at once; channels open, fail and are closed
\* by the server, connect timeouts, backoff timers and keepalive timers
\* fire, the window goes offline, online and visible.
PairNext ==
    \/ \E t \in Task, c \in MainSubscriptions : Subscribe(t, c[1], c[2])
    \/ \E t \in Task : Unsubscribe(t)
    \/ \E t \in Task : Reconnect(t)
    \/ \E i \in WsId : WsOpen(i)
    \/ \E i \in WsId : WsFailed(i)
    \/ \E i \in WsId, code \in ServerCloseCodes : WsClosed(i, code)
    \/ \E i \in WsId : ConnectionTimeout(i)
    \/ \E t \in Task : RetryTimer(t)
    \/ \E t \in Task : PingTimer(t)
    \/ Online
    \/ Offline
    \/ Visible

PairSpec == Init /\ [][PairNext]_vars

(* ------------------------------------------------ any attempt counter *)
\* The service after the caller has subscribed task t1 and called reconnect
\* a times in a row, and the a WebSocket objects replaced on the way have
\* failed: each error event has counted one attempt and re-armed the backoff
\* timer, the last WebSocket is still connecting.  The failed objects are
\* closed and referred to by nothing.
CounterInit ==
    \E a \in 0..maxReconnectAttempts :
        /\ connections = [t \in Task |-> IF t = "t1" THEN 1 ELSE NoWsId]
        /\ callbacks = [t \in Task |-> IF t = "t1" THEN 1 ELSE NoCb]
        /\ connectionStatusCallbacks = [t \in Task |-> IF t = "t1" THEN 1 ELSE NoCb]
        /\ reconnectTimeouts = [t \in Task |->
               IF t = "t1" /\ a > 0
               THEN [pending |-> TRUE, set |-> TRUE, attempts |-> a - 1,
                     delay |-> BackoffDelay(a - 1), cb |-> 1, scb |-> 1]
               ELSE NoTimer]
        /\ helloAckTimeouts = [t \in Task |-> FALSE]
        /\ reconnectAttempts = [t \in Task |-> IF t = "t1" THEN a ELSE Absent]
        /\ pingIntervals = [t \in Task |-> NoWsId]
        /\ heartbeatCheckIntervals = [t \in Task |-> FALSE]
        /\ connectionState = [t \in Task |->
               IF t # "t1" THEN NoState
               ELSE IF a = 0 THEN "connecting" ELSE "disconnected"]
        /\ heartbeatAge = [t \in Task |-> Absent]
        /\ callbackOrder = <<"t1">>
        /\ connectionOrder = <<"t1">>
        /\ ws = [i \in WsId |->
               IF i = 1
               THEN [NoWs EXCEPT !.task = "t1", !.readyState = "CONNECTING",
                                 !.handlers = TRUE, !.cb = 1, !.scb = 1,
                                 !.connectionTimeout = TRUE, !.promise = "pending"]
               ELSE NoWs]
        /\ graceTimers = [t \in Task |-> FALSE]
        /\ hung = FALSE
        /\ retries = 0
        /\ terminalFrames = 0
        /\ statusLog = <<>>
        /\ cleanupTimers = [t \in Task |-> 0]

CounterSpec == CounterInit /\ [][Next]_vars

(* ---------------------------------------------------- callbacks replaced *)
\* The caller subscribes its task again and again, with one pair of
\* callbacks or the other, and calls reconnect; channels open, carry data,
\* fail and time out; backoff and re-arm timers fire.
ReplaceNext ==
    \/ \E t \in MainTasks, c \in Subscriptions : Subscribe(t, c[1], c[2])
    \/ \E t \in MainTasks : Reconnect(t)
    \/ \E i \in WsId : WsOpen(i)
    \/ \E i \in WsId, f \in InboundFrames : WsMessage(i, f)
    \/ \E i \in WsId : WsFailed(i)
    \/ \E i \in WsId, code \in ServerCloseCodes \cup {NoStatusCode} : WsClosed(i, code)
    \/ \E i \in WsId : ConnectionTimeout(i)
    \/ \E t \in MainTasks : RetryTimer(t)
    \/ \E i \in WsId : RearmTimer(i)

ReplaceSpec == Init /\ [][ReplaceNext]_vars

(* ============================================================== claims *)
Live(w) == w.readyState \in {"CONNECTING", "OPEN"}

HasLiveChannel(t) == connections[t] # NoWsId /\ Live(ws[connections[t]])

\* C1: subscribeToTask for a task whose channel is connecting or open creates
\* no WebSocket, keeps the channel object, replaces only the stored callbacks
\* and returns a promise that is already resolved.
C1_DuplicateSubscribeKeepsChannel ==
    \A t \in MainTasks, c \in Subscriptions :
        HasLiveChannel(t) =>
            LET R == subscribeToTask(St, t, c[1], c[2]) IN
            R.ok =>
                /\ R.out.created = 0
                /\ R.connections[t] = connections[t]
                /\ R.ws[connections[t]] = ws[connections[t]]
                /\ R.callbacks[t] = c[1]
                /\ R.out.settled = <<[ws |-> connections[t], how |-> "resolved"]>>

\* C2: a task never has two channels that are connecting or open, and every
\* channel object of the task other than the one in connections has had
\* close() called on it.
C2_OneLiveChannelPerTask ==
    \A t \in Task :
        /\ Cardinality({i \in WsId : ws[i].task = t /\ Live(ws[i])}) <= 1
        /\ \A i \in WsId : ws[i].task = t /\ Live(ws[i]) => connections[t] = i

\* a new channel is connecting or open while the one it replaced is still
\* closing, its handlers attached
C2_Witness ==
    \E t \in MainTasks, i, j \in WsId :
        /\ i # j /\ ws[i].task = t /\ ws[j].task = t
        /\ connections[t] = i /\ Live(ws[i])
        /\ ws[j].readyState = "CLOSING" /\ ws[j].handlers

\* every timer the service holds for task t (the hello-ack timer counts
\* for as long as its handle is stored)
TimersOf(t) ==
    (IF pingIntervals[t] # NoWsId THEN {"keepalive"} ELSE {})
    \cup (IF heartbeatCheckIntervals[t] THEN {"staleness"} ELSE {})
    \cup (IF graceTimers[t] THEN {"grace"} ELSE {})
    \cup (IF reconnectTimeouts[t].pending THEN {"backoff"} ELSE {})
    \cup (IF helloAckTimeouts[t] THEN {"helloAck"} ELSE {})
    \cup (IF \E i \in WsId : ws[i].task = t /\ ws[i].connectionTimeout
          THEN {"connectTimeout"} ELSE {})
    \cup (IF \E i \in WsId : ws[i].task = t /\ ws[i].helloTimer THEN {"hello"} ELSE {})
    \cup (IF \E i \in WsId : ws[i].task = t /\ ws[i].rearm THEN {"rearm"} ELSE {})

\* C3: while a task is not subscribed (never subscribed, or unsubscribed and
\* not subscribed again) no timer of the task is pending, so none can fire.
C3_NoTimerAfterUnsubscribe ==
    \A t \in Task : ~isSubscribed(St, t) => TimersOf(t) = {}

\* C4: getConnectionState answers disconnected for every task that is not
\* subscribed, whatever its former channels did after the unsubscribe.
C4_UnsubscribedIsDisconnected ==
    \A t \in Task : ~isSubscribed(St, t) => getConnectionState(St, t) = "disconnected"

\* an event of a former channel has put an entry for the unsubscribed task
\* back into connectionState
C4_Witness ==
    \E t \in MainTasks :
        /\ ~isSubscribed(St, t)
        /\ connectionState[t] # NoState
        /\ getConnectionState(St, t) = "disconnected"

\* the channel whose promise a subscribe returned has not opened yet
Unopened(i) == ws[i].readyState = "CONNECTING" /\ ws[i].handlers /\ ws[i].promise = "pending"

\* C5: the promise of subscribeToTask is resolved only on a channel that has
\* opened; a transport error before the open rejects it, and so does the
\* 15 s connect timeout.
C5_PromiseSettles ==
    \A i \in WsId :
        /\ ws[i].promise = "resolved" => ws[i].readyState # "CONNECTING"
        /\ Unopened(i) =>
              onerror([St EXCEPT !.ws[i].readyState = "CLOSED"], i).ws[i].promise = "rejected"
        /\ Unopened(i) /\ ws[i].connectionTimeout =>
              connectionTimeoutFire(St, i).ws[i].promise = "rejected"

\* C6: with every open failing, the backoff timer pending after k - 1 retries
\* is the k-th retry, and its delay is min(2^(k-1) * 1000, 30000).
C6_BackoffDelaySequence ==
    \A t \in MainTasks :
        reconnectTimeouts[t].pending => reconnectTimeouts[t].delay = BackoffDelay(retries)

\* the last retry that ran has failed
RetryFailed(t) == connections[t] # NoWsId /\ ~Live(ws[connections[t]])

\* C7: once maxReconnectAttempts retries have run and failed the data
\* callback has got the terminal frame, once, and no retry is scheduled;
\* the terminal frame is never delivered twice.
C7_TerminalFrameOnce ==
    \A t \in MainTasks :
        /\ terminalFrames <= 1
        /\ retries >= maxReconnectAttempts /\ RetryFailed(t) =>
              /\ terminalFrames = 1
              /\ ~reconnectTimeouts[t].pending
              /\ \A i \in WsId : ws[i].task = t => ~ws[i].rearm

\* C8: with every open failing and a caller that only subscribed, no more
\* than maxReconnectAttempts retries run.
C8_RetriesStop == retries <= maxReconnectAttempts

\* a connected task whose last frame is older than heartbeatTimeout, at the
\* moment its staleness check runs
StaleConnected(t) ==
    /\ heartbeatCheckIntervals[t]
    /\ connectionState[t] = "connected"
    /\ Stale(St, t)

Pongs(R) == SelectSeq(R.out.sent, LAMBDA m : m.frame.type = "pong")

\* C10: an inbound ping is answered with exactly one pong, which carries
\* the ping's timestamp and the task id; neither a ping nor a pong reaches
\* the data callback.
C10_PingPong ==
    \A i \in WsId, f \in InboundFrames :
        ws[i].readyState = "OPEN" /\ f.json =>
            LET R == onmessage(St, i, f) IN
            /\ f.type = "ping" =>
                  /\ Len(Pongs(R)) = 1
                  /\ Pongs(R)[1].ws = i
                  /\ Pongs(R)[1].frame.timestamp = f.timestamp
                  /\ Pongs(R)[1].frame.task_id = ws[i].task
            /\ f.type # "ping" => Pongs(R) = <<>>
            /\ f.type \in {"ping", "pong"} => R.out.data = <<>>

\* a ping arrives on the open channel of a subscribed task and is answered
C10_Witness ==
    \E i \in WsId, f \in InboundFrames :
        /\ ws[i].readyState = "OPEN" /\ f.json /\ f.type = "ping"
        /\ callbacks[ws[i].task] # NoCb
        /\ Len(Pongs(onmessage(St, i, f))) = 1

\* C11: a connection_status frame that arrives on an open channel invokes the
\* task's status callback with the status the frame carries, as the last
\* status notification of the handler, and never invokes a data callback.
C11_StatusFrameToStatusCallback ==
    \A i \in WsId, f \in InboundFrames :
        ws[i].readyState = "OPEN" /\ ws[i].handlers /\ f.json /\ f.type = "connection_status" =>
            LET R   == onmessage(St, i, f)
                scb == connectionStatusCallbacks[ws[i].task]
            IN /\ R.out.data = <<>>
               /\ scb # NoCb =>
                     /\ Len(R.out.status) >= 1
                     /\ R.out.status[Len(R.out.status)] = [cb |-> scb, status |-> f.status]
               /\ scb = NoCb => R.out.status = <<>>

\* a connection_status frame can arrive for a task with a status callback
C11_Witness ==
    \E i \in WsId, f \in InboundFrames :
        /\ ws[i].readyState = "OPEN" /\ ws[i].handlers
        /\ f.json /\ f.type = "connection_status"
        /\ connectionStatusCallbacks[ws[i].task] # NoCb
        /\ onmessage(St, i, f).out.status =
               <<[cb |-> connectionStatusCallbacks[ws[i].task], status |-> "degraded"]>>

\* the frame types the router keeps from the data callback
RoutedTypes == {"ping", "pong", "hello_ack", "connection_status"}

\* C12: a frame that arrives on an open channel reaches the data callback
\* exactly when it parses as JSON, its type is none of ping, pong, hello_ack
\* and connection_status, and the task still has a data callback; the
\* callback is the registered one, called once, with the parsed frame itself.
C12_DataCallbackIffOtherFrame ==
    \A i \in WsId, f \in InboundFrames :
        ws[i].readyState = "OPEN" /\ ws[i].handlers =>
            LET R == onmessage(St, i, f)
                t == ws[i].task
            IN R.out.data =
                  IF f.json /\ f.type \notin RoutedTypes /\ isSubscribed(St, t)
                  THEN <<[cb |-> callbacks[t], frame |-> f]>>
                  ELSE <<>>

\* a frame without a type field arrives for a subscribed task
C12_Witness ==
    \E i \in WsId, f \in InboundFrames :
        /\ ws[i].readyState = "OPEN" /\ ws[i].handlers
        /\ f.json /\ f.type = "" /\ isSubscribed(St, ws[i].task)
        /\ onmessage(St, i, f).out.data = <<[cb |-> callbacks[ws[i].task], frame |-> f]>>

\* the order in which a task's status callback is told its states
StatusCycle == <<"connecting", "connected", "disconnected">>

\* C13: with a subscribe, an open and then rounds of abnormal close, backoff
\* retry and reopen, the status callback is told connecting, connected,
\* disconnected, connecting, connected, disconnected, ... in this order, no
\* notification doubled, missing or out of place.
C13_StatusSequence ==
    \A k \in 1..Len(statusLog) : statusLog[k] = StatusCycle[((k - 1) % 3) + 1]

\* two full rounds have run and the third channel has opened
C13_Witness ==
    /\ retries >= 2
    /\ Len(statusLog) >= 8
    /\ statusLog[Len(statusLog)] = "connected"

\* close events the transport can deliver to the handlers of object i
CloseEvent(i, code) ==
    /\ ws[i].handlers
    /\ \/ ws[i].readyState = "OPEN" /\ code \in ServerCloseCodes \cup {AbnormalClosure}
       \/ ws[i].readyState = "CLOSING" /\ ~ws[i].failing /\ code = ws[i].closeCode

\* C14: a close with code 1000 or 1001 never arms the backoff timer; a close
\* with any other code on the current channel of a task that is still
\* subscribed hands the task to attemptReconnect, which arms the timer and
\* counts the attempt.
C14_CloseCodeDecidesReconnect ==
    \A i \in WsId, code \in ServerCloseCodes \cup {AbnormalClosure, NoStatusCode} :
        CloseEvent(i, code) =>
            LET t == ws[i].task
                R == onclose([St EXCEPT !.ws[i].readyState = "CLOSED"], i, code)
            IN IF code \in {NormalClosure, GoingAway}
               THEN /\ R.reconnectTimeouts[t] = reconnectTimeouts[t]
                    /\ R.reconnectAttempts[t] = reconnectAttempts[t]
               ELSE connections[t] = i /\ isSubscribed(St, t) =>
                        /\ R.reconnectTimeouts[t].pending
                        /\ R.reconnectAttempts[t] > 0

\* C15: reconnect for a task without a data callback returns a rejected
\* promise and changes nothing: no WebSocket is created or closed, no timer
\* is set or cleared, no callback is invoked, no entry of any task changes.
C15_ReconnectUnknownTaskRejects ==
    \A t \in Task :
        ~isSubscribed(St, t) =>
            reconnect(St, t) =
                [St EXCEPT !.out.settled = <<[ws |-> NoWsId, how |-> "rejected"]>>]

\* reconnect is called for a task that was unsubscribed, a WebSocket object
\* of which is still around, while another task has a channel
C15_Witness ==
    \E t, u \in Task :
        /\ ~isSubscribed(St, t) /\ isSubscribed(St, u) /\ HasLiveChannel(u)
        /\ \E i \in WsId : ws[i].task = t /\ ws[i].readyState = "CLOSING"
        /\ reconnect(St, t).out.settled = <<[ws |-> NoWsId, how |-> "rejected"]>>

\* everything the registry holds under the key of task u
TaskView(S, u) ==
    [connection |-> S.connections[u], callback |-> S.callbacks[u],
     statusCallback |-> S.connectionStatusCallbacks[u],
     reconnectTimeout |-> S.reconnectTimeouts[u], helloAck |-> S.helloAckTimeouts[u],
     attempts |-> S.reconnectAttempts[u], ping |-> S.pingIntervals[u],
     heartbeatCheck |-> S.heartbeatCheckIntervals[u], state |-> S.connectionState[u],
     heartbeatAge |-> S.heartbeatAge[u]]

\* the registry holds nothing under the key of task t
Untracked(S, t) ==
    TaskView(S, t) = [connection |-> NoWsId, callback |-> NoCb, statusCallback |-> NoCb,
                      reconnectTimeout |-> NoTimer, helloAck |-> FALSE, attempts |-> Absent,
                      ping |-> NoWsId, heartbeatCheck |-> FALSE, state |-> NoState,
                      heartbeatAge |-> Absent]

\* C16: unsubscribeFromTask for a task the registry does not hold changes
\* nothing; for any task it leaves the entries and the WebSocket objects of
\* every other task as they are; and a second call right after the first
\* changes nothing more.
C16_UnsubscribeFrame ==
    \A t \in Task :
        LET R == unsubscribeFromTask(St, t) IN
        /\ Untracked(St, t) => R = St
        /\ \A u \in Task \ {t} : TaskView(R, u) = TaskView(St, u)
        /\ \A i \in WsId : ws[i].task # t => R.ws[i] = ws[i]
        /\ unsubscribeFromTask(R, t) = R

\* one task is not in the registry while the other is connected, its timers
\* running
C16_Witness ==
    \E t, u \in Task :
        /\ Untracked(St, t)
        /\ connectionState[u] = "connected" /\ pingIntervals[u] # NoWsId
        /\ heartbeatCheckIntervals[u]
        /\ unsubscribeFromTask(St, t) = St

\* C17: in every state, a task without a data callback has nothing else in
\* the registry: no channel, no connection state, no attempt counter, no
\* heartbeat timestamp, no status callback and no timer handle, the
\* hello-ack handle included.
C17_NothingWithoutCallback ==
    \A t \in Task :
        ~isSubscribed(St, t) => Untracked(St, t)

\* the attempt budget of task t is used up: maxReconnectAttempts retries have
\* run and no channel of the task is connecting or open
BudgetExhausted(t) ==
    /\ retries >= maxReconnectAttempts
    /\ \A i \in WsId : ws[i].task = t => ~Live(ws[i])

\* C18: once the attempt budget is used up the task is torn down: it is no
\* longer subscribed, it has no channel, no timer is pending for it and the
\* registry holds nothing for it.
C18_ExhaustionTearsDown ==
    \A t \in MainTasks :
        BudgetExhausted(t) =>
            /\ ~isSubscribed(St, t)
            /\ connections[t] = NoWsId
            /\ TimersOf(t) = {}
            /\ Untracked(St, t)

\* the service with the callbacks of task t being the closure that
\* unsubscribes: the registered ones and the ones handlers and timers captured
Reenter(c) == IF c = NoCb THEN NoCb ELSE ReentrantCb

AsReentrant(S, t) ==
    [S EXCEPT !.callbacks[t] = Reenter(@),
              !.connectionStatusCallbacks[t] = Reenter(@),
              !.reconnectTimeouts[t].cb = Reenter(@),
              !.reconnectTimeouts[t].scb = Reenter(@),
              !.ws = [i \in WsId |->
                         IF S.ws[i].task = t
                         THEN [S.ws[i] EXCEPT !.cb = Reenter(@), !.scb = Reenter(@)]
                         ELSE S.ws[i]]]

\* the timers service S holds for task t
TimersIn(S, t) ==
    (IF S.pingIntervals[t] # NoWsId THEN {"keepalive"} ELSE {})
    \cup (IF S.heartbeatCheckIntervals[t] THEN {"staleness"} ELSE {})
    \cup (IF S.graceTimers[t] THEN {"grace"} ELSE {})
    \cup (IF S.reconnectTimeouts[t].pending THEN {"backoff"} ELSE {})
    \cup (IF S.helloAckTimeouts[t] THEN {"helloAck"} ELSE {})
    \cup (IF \E i \in WsId : S.ws[i].task = t /\ S.ws[i].connectionTimeout
          THEN {"connectTimeout"} ELSE {})
    \cup (IF \E i \in WsId : S.ws[i].task = t /\ S.ws[i].helloTimer /\ S.ws[i].readyState = "OPEN"
          THEN {"hello"} ELSE {})
    \cup (IF \E i \in WsId : S.ws[i].task = t /\ S.ws[i].rearm THEN {"rearm"} ELSE {})

\* what task t has in service S: registry entries, timers, live channels
Footprint(S, t) ==
    [view |-> TaskView(S, t), timers |-> TimersIn(S, t),
     live |-> {i \in WsId : S.ws[i].task = t /\ Live(S.ws[i])}]

\* R is a handler run with the unsubscribing closure, P the same handler run
\* with a callback that only looks: if the closure was called, R leaves of
\* the task what unsubscribeFromTask called after P leaves
SameAsOutside(R, P, t) ==
    R.ok /\ P.ok /\ (R.out.status # <<>> \/ R.out.data # <<>>) =>
        Footprint(R, t) = Footprint(unsubscribeFromTask(P, t), t)

\* C19: a data or status callback may call unsubscribeFromTask for its own
\* task while subscribeToTask, onopen, onmessage, onerror or onclose is
\* running; when the handler returns the task has the channel, timers and
\* registry entries it would have had the caller unsubscribed right after
\* the handler: none.
C19_UnsubscribeInsideCallback ==
    LET t == ReentrantTask
        X == AsReentrant(St, t)
    IN /\ SameAsOutside(subscribeToTask(St, t, ReentrantCb, ReentrantCb),
                        subscribeToTask(St, t, 1, 1), t)
       /\ \A i \in WsId :
             ws[i].task = t /\ ws[i].handlers =>
                /\ ws[i].readyState = "CONNECTING" =>
                      SameAsOutside(onopen([X EXCEPT !.ws[i].readyState = "OPEN"], i),
                                    onopen([St EXCEPT !.ws[i].readyState = "OPEN"], i), t)
                /\ ws[i].readyState = "OPEN" =>
                      \A f \in InboundFrames :
                          SameAsOutside(onmessage(X, i, f), onmessage(St, i, f), t)
                /\ ws[i].readyState # "CLOSED" =>
                      SameAsOutside(
                          onclose(onerror([X EXCEPT !.ws[i].readyState = "CLOSED"], i),
                                  i, AbnormalClosure),
                          onclose(onerror([St EXCEPT !.ws[i].readyState = "CLOSED"], i),
                                  i, AbnormalClosure), t)
                /\ \A code \in ServerCloseCodes :
                      CloseEvent(i, code) =>
                          SameAsOutside(
                              onclose([X EXCEPT !.ws[i].readyState = "CLOSED"], i, code),
                              onclose([St EXCEPT !.ws[i].readyState = "CLOSED"], i, code), t)

\* listener result R, reached from the present state, has given every tracked
\* task that was not connected a new connecting channel and has left every
\* tracked connected task alone
Reattached(R) ==
    /\ ~R.hung
    /\ \A t \in Task :
          isSubscribed(St, t) =>
              IF connectionState[t] # "connected"
              THEN /\ R.connectionState[t] = "connecting"
                   /\ R.connections[t] # NoWsId
                   /\ R.ws[R.connections[t]].readyState = "CONNECTING"
                   /\ R.ws[R.connections[t]].promise = "pending"
              ELSE /\ TaskView(R, t) = TaskView(St, t)
                   /\ R.ws[connections[t]] = ws[connections[t]]

\* C20: when the network comes back, and when the page becomes visible,
\* the listener returns having started a new channel for every tracked task
\* that is not connected (its state is connecting) and having left channel,
\* timers, counter and callbacks of every tracked connected task as they were.
C20_ListenersReattach ==
    ~hung =>
        /\ handleOnline(St).ok => Reattached(handleOnline(St))
        /\ handleVisibilityChange(St).ok => Reattached(handleVisibilityChange(St))

\* C21: a backoff timer that fires creates a WebSocket only if the task has a
\* data callback and its state is disconnected at that moment; otherwise the
\* firing changes nothing (the timer is spent, and that is all).
C21_RetryOnlyWhenDisconnected ==
    \A t \in Task :
        reconnectTimeouts[t].pending =>
            LET R == retryFire(St, t) IN
            /\ R.out.created > 0 => isSubscribed(St, t) /\ connectionState[t] = "disconnected"
            /\ ~(isSubscribed(St, t) /\ connectionState[t] = "disconnected") =>
                  R = [St EXCEPT !.reconnectTimeouts[t].pending = FALSE]

\* a backoff timer is pending for a subscribed task that has moved on to
\* connecting or connected
C21_Witness ==
    \E t \in Task :
        /\ reconnectTimeouts[t].pending /\ isSubscribed(St, t)
        /\ connectionState[t] \in {"connecting", "connected"}
        /\ HasLiveChannel(t)
        /\ retryFire(St, t).out.created = 0

\* C22: a backoff timer that fires for a task that has a data callback and
\* is disconnected creates one WebSocket, which becomes the task's channel
\* and is connecting, and the state of the task becomes connecting.
C22_RetryOpensChannel ==
    \A t \in Task :
        reconnectTimeouts[t].pending /\ isSubscribed(St, t)
            /\ connectionState[t] = "disconnected" =>
            LET R == retryFire(St, t) IN
            R.ok =>
                /\ R.out.created = 1
                /\ R.connectionState[t] = "connecting"
                /\ R.connections[t] # NoWsId
                /\ R.ws[R.connections[t]].readyState = "CONNECTING"
                /\ R.ws[R.connections[t]].handlers
                /\ R.ws[R.connections[t]].promise = "pending"

\* the backoff timer of a subscribed, disconnected task whose channel has
\* failed fires and a WebSocket is created
C22_Witness ==
    \E t \in Task :
        /\ reconnectTimeouts[t].pending /\ isSubscribed(St, t)
        /\ connectionState[t] = "disconnected"
        /\ connections[t] # NoWsId /\ ws[connections[t]].readyState = "CLOSED"
        /\ retryFire(St, t).ok /\ retryFire(St, t).out.created = 1

\* a frame can arrive on object i, the channel of a subscribed task
Receiving(i) ==
    /\ ws[i].readyState = "OPEN" /\ ws[i].handlers
    /\ connections[ws[i].task] = i /\ isSubscribed(St, ws[i].task)

\* C23: every frame that arrives on the channel of a subscribed task, of any
\* type and parseable or not, sets the last-heartbeat time to the time of
\* receipt; the state is connected afterwards, and if it was not connected
\* before, the status callback is told connected, first of all.
C23_AnyFrameRefreshes ==
    \A i \in WsId, f \in InboundFrames :
        Receiving(i) =>
            LET t == ws[i].task
                R == onmessage(St, i, f)
            IN /\ R.heartbeatAge[t] = 0
               /\ R.connectionState[t] = "connected"
               /\ connectionState[t] # "connected"
                     /\ connectionStatusCallbacks[t] # NoCb =>
                     /\ Len(R.out.status) >= 1
                     /\ R.out.status[1] =
                           [cb |-> connectionStatusCallbacks[t], status |-> "connected"]

\* a frame arrives on an open channel whose task is recorded as disconnected
\* and whose last frame is old
C23_Witness ==
    \E i \in WsId, f \in InboundFrames :
        /\ Receiving(i) /\ ~f.json
        /\ connectionState[ws[i].task] = "disconnected"
        /\ heartbeatAge[ws[i].task] > heartbeatTimeout
        /\ onmessage(St, i, f).connectionState[ws[i].task] = "connected"

\* what a frame that does not parse must leave alone in any case: no data
\* callback, nothing sent, no WebSocket closed or created, no backoff timer
\* armed, no attempt counted
GarbageDropped(R) ==
    /\ R.out.data = <<>> /\ R.out.sent = <<>> /\ R.out.created = 0
    /\ R.ws = ws
    /\ R.connections = connections
    /\ R.reconnectTimeouts = reconnectTimeouts
    /\ R.reconnectAttempts = reconnectAttempts

\* C24 as written: a frame that is not parseable JSON leaves the connection
\* state as it is, invokes neither the data nor the status callback, closes
\* no channel and schedules no reconnect.
C24_GarbageChangesNothing ==
    \A i \in WsId, f \in InboundFrames :
        ws[i].readyState = "OPEN" /\ ws[i].handlers /\ ~f.json =>
            LET R == onmessage(St, i, f) IN
            /\ GarbageDropped(R)
            /\ R.connectionState = connectionState
            /\ R.out.status = <<>>

\* C24 amended: a frame that is not parseable JSON invokes no data callback,
\* closes no channel and schedules no reconnect; it leaves a connected task
\* connected and its status callback alone, and it promotes a task recorded
\* as anything else to connected, telling the status callback so, as every
\* frame does.
C24_GarbageOnlyPromotes ==
    \A i \in WsId, f \in InboundFrames :
        ws[i].readyState = "OPEN" /\ ws[i].handlers /\ ~f.json =>
            LET t == ws[i].task
                R == onmessage(St, i, f)
            IN /\ GarbageDropped(R)
               /\ R.connectionState = [connectionState EXCEPT ![t] = "connected"]
               /\ R.out.status =
                     IF connectionState[t] = "connected"
                           \/ connectionStatusCallbacks[t] = NoCb
                     THEN <<>>
                     ELSE <<[cb |-> connectionStatusCallbacks[t], status |-> "connected"]>>

\* a frame that does not parse arrives for a task the offline listener has
\* marked disconnected: it is dropped, and the status callback is told
\* connected
C24_Witness ==
    \E i \in WsId, f \in InboundFrames :
        /\ Receiving(i) /\ ~f.json
        /\ connectionState[ws[i].task] = "disconnected"
        /\ GarbageDropped(onmessage(St, i, f))
        /\ onmessage(St, i, f).out.status =
               <<[cb |-> connectionStatusCallbacks[ws[i].task], status |-> "connected"]>>

\* the staleness check of task t runs, the task is stale and its channel is
\* open
StaleOpen(t) ==
    /\ heartbeatCheckIntervals[t] /\ Stale(St, t)
    /\ connections[t] # NoWsId /\ ws[connections[t]].readyState = "OPEN"

\* the probe of the staleness check: one ping on the channel, the 5 s
\* re-check armed, the channel kept
Probed(R, t) ==
    /\ R.out.sent = <<[ws |-> connections[t],
                       frame |-> [type |-> "ping", timestamp |-> ClientTimestamp,
                                  task_id |-> t]]>>
    /\ R.graceTimers[t]
    /\ R.out.created = 0
    /\ R.connections = connections

\* the 5 s re-check reconnects a subscribed task exactly if it is still stale
Rechecked(t) ==
    graceTimers[t] /\ isSubscribed(St, t) =>
        LET G == graceCheck(St, t) IN
        G.ok =>
            /\ ~G.graceTimers[t]
            /\ G.out.created = (IF Stale(St, t) THEN 1 ELSE 0)
            /\ ~Stale(St, t) => G.connections = connections

\* a frame that arrives while the re-check is pending makes the re-check find
\* the task fresh
FrameSaves(t) ==
    \A i \in WsId, f \in InboundFrames :
        graceTimers[t] /\ Receiving(i) /\ ws[i].task = t =>
            graceCheck(onmessage(St, i, f), t).out.created = 0

IntervalsCancelled(R, t) == R.pingIntervals[t] = NoWsId /\ ~R.heartbeatCheckIntervals[t]

\* C26: when reconnect or a backoff retry has created the new WebSocket of a
\* task, the keepalive and the staleness interval of the channel before are
\* cancelled: none runs while the new channel is connecting.
C26_OldTimersCancelled ==
    \A t \in Task :
        /\ isSubscribed(St, t) =>
              (reconnect(St, t).ok => IntervalsCancelled(reconnect(St, t), t))
        /\ reconnectTimeouts[t].pending /\ retryRuns(St, t) =>
              (retryFire(St, t).ok => IntervalsCancelled(retryFire(St, t), t))

\* the attempt counter as the code reads it: reconnectAttempts.get(t) || 0
Attempts(S, t) == IF S.reconnectAttempts[t] = Absent THEN 0 ELSE S.reconnectAttempts[t]

\* C27: the attempt counter of a subscribed task is always an integer from 0
\* to maxReconnectAttempts, and it is 0 when onopen returns.
C27_CounterInRange ==
    /\ \A t \in Task :
          isSubscribed(St, t) =>
              /\ reconnectAttempts[t] # Absent
              /\ reconnectAttempts[t] \in 0..maxReconnectAttempts
    /\ \A i \in WsId :
          ws[i].readyState = "CONNECTING" /\ ws[i].handlers =>
              onopen([St EXCEPT !.ws[i].readyState = "OPEN"], i).reconnectAttempts[ws[i].task] = 0

\* attemptReconnect has run at the ceiling (the terminal frame was
\* delivered) and the counter still stands there
C27_Witness ==
    \E t \in Task :
        /\ isSubscribed(St, t) /\ reconnectAttempts[t] = maxReconnectAttempts
        /\ terminalFrames > 0

\* an error event can reach the handlers of object i
ErrorEvent(i) == ws[i].handlers /\ ws[i].readyState \in {"CONNECTING", "OPEN", "CLOSING"}

\* C28: attemptReconnect run at counter a < maxReconnectAttempts arms a timer
\* of exactly min(2^a * 1000, 30000) ms and leaves the counter at a + 1; the
\* delay is never less than 1000 ms and never more than 30000 ms.
C28_BackoffDelay ==
    \A i \in WsId :
        ErrorEvent(i) =>
            LET t == ws[i].task
                a == Attempts(St, t)
                R == onerror([St EXCEPT !.ws[i].readyState = "CLOSED"], i)
            IN a < maxReconnectAttempts =>
                /\ R.reconnectTimeouts[t].pending
                /\ R.reconnectTimeouts[t].delay =
                      (IF (2 ^ a) * 1000 < 30000 THEN (2 ^ a) * 1000 ELSE 30000)
                /\ R.reconnectTimeouts[t].delay >= 1000
                /\ R.reconnectTimeouts[t].delay <= 30000
                /\ R.reconnectAttempts[t] = a + 1

\* attemptReconnect has run at the last counter value below the ceiling,
\* for the error of the task's channel
C28_Witness ==
    \E t \in Task :
        /\ connections[t] # NoWsId /\ ws[connections[t]].readyState = "CLOSED"
        /\ reconnectAttempts[t] = maxReconnectAttempts
        /\ reconnectTimeouts[t].pending
        /\ reconnectTimeouts[t].attempts = maxReconnectAttempts - 1
        /\ reconnectTimeouts[t].delay = 30000

\* C29: reconnect for a task with a data callback closes the channel the task
\* had and drops it, cancels the keepalive interval, the staleness interval
\* and a pending backoff timer, leaves the counter at 0 and the state at
\* connecting, and creates one WebSocket, the new channel, whose handlers hold
\* the data and status callbacks registered before the call; the registered
\* callbacks stay as they were.
C29_ReconnectReplacesChannel ==
    \A t \in Task :
        isSubscribed(St, t) =>
            LET R   == reconnect(St, t)
                old == connections[t]
                new == R.connections[t]
            IN R.ok =>
                /\ old # NoWsId /\ Live(ws[old]) =>
                      R.ws[old].readyState = "CLOSING" /\ new # old
                /\ R.ws[new].promise = "pending" /\ R.ws[new].connectionTimeout
                /\ IntervalsCancelled(R, t)
                /\ R.reconnectTimeouts[t] = NoTimer
                /\ R.reconnectAttempts[t] = 0
                /\ R.connectionState[t] = "connecting"
                /\ R.out.created = 1
                /\ new # NoWsId
                /\ R.ws[new].readyState = "CONNECTING" /\ R.ws[new].handlers
                /\ R.ws[new].cb = callbacks[t]
                /\ R.ws[new].scb = connectionStatusCallbacks[t]
                /\ R.callbacks[t] = callbacks[t]
                /\ R.connectionStatusCallbacks[t] = connectionStatusCallbacks[t]

\* reconnect is called for a task whose channel is open, both intervals
\* running
C29_Witness ==
    \E t \in Task :
        /\ isSubscribed(St, t)
        /\ connections[t] # NoWsId /\ ws[connections[t]].readyState = "OPEN"
        /\ pingIntervals[t] # NoWsId /\ heartbeatCheckIntervals[t]
        /\ reconnect(St, t).ok
        /\ reconnect(St, t).ws[connections[t]].readyState = "CLOSING"

\* C30: whenever a frame makes onmessage tell the status callback connected,
\* the callback finds the last-heartbeat time already at the time of the
\* frame's receipt and the recorded state already connected.
C30_ConnectedSeenAfterUpdate ==
    \A i \in WsId, f \in InboundFrames :
        ws[i].readyState = "OPEN" /\ ws[i].handlers =>
            LET t == ws[i].task
                R == onmessage(St, i, f)
            IN \A k \in 1..Len(R.out.seen) :
                   R.out.seen[k].status = "connected" =>
                       /\ R.out.seen[k].heartbeatAge[t] = 0
                       /\ R.out.seen[k].connectionState[t] = "connected"

\* a frame promotes a task that was recorded as disconnected, its last frame
\* long ago, and the status callback is told connected
C30_Witness ==
    \E i \in WsId, f \in InboundFrames :
        /\ Receiving(i)
        /\ connectionState[ws[i].task] = "disconnected"
        /\ heartbeatAge[ws[i].task] > heartbeatTimeout
        /\ Len(onmessage(St, i, f).out.seen) = 1
        /\ onmessage(St, i, f).out.seen[1].status = "connected"
        /\ onmessage(St, i, f).out.seen[1].heartbeatAge[ws[i].task] = 0

\* object i was the channel of a subscribed task that has a newer channel,
\* connecting or open
Replaced(i) ==
    /\ ws[i].readyState # "NONE"
    /\ isSubscribed(St, ws[i].task)
    /\ HasLiveChannel(ws[i].task)
    /\ connections[ws[i].task] # i

\* handler result R has left task t as it was: state, intervals, backoff
\* timer and counter; the data callback was not called
Untouched(R, t) ==
    /\ R.connectionState[t] = connectionState[t]
    /\ R.pingIntervals[t] = pingIntervals[t]
    /\ R.heartbeatCheckIntervals[t] = heartbeatCheckIntervals[t]
    /\ R.reconnectTimeouts[t] = reconnectTimeouts[t]
    /\ R.reconnectAttempts[t] = reconnectAttempts[t]
    /\ R.out.data = <<>>

\* C31: once a task's channel has been replaced, an error or close event of
\* the replaced WebSocket (an open or message event cannot reach it any more)
\* leaves the task's state, the new channel's keepalive and staleness
\* intervals and the backoff timer as they are and calls no data callback.
C31_LateEventsIgnored ==
    \A i \in WsId :
        Replaced(i) =>
            LET t  == ws[i].task
                S1 == [St EXCEPT !.ws[i].readyState = "CLOSED"]
            IN /\ ErrorEvent(i) =>
                     Untouched(onclose(onerror(S1, i), i, AbnormalClosure), t)
               /\ \A code \in ServerCloseCodes \cup {AbnormalClosure} :
                     CloseEvent(i, code) => Untouched(onclose(S1, i, code), t)

\* handler result R has called no data callback but the one registered for
\* task t, and that one is still the registered one
OnlyRegistered(R, t) ==
    R.ok =>
        /\ R.callbacks[t] = callbacks[t]
        /\ \A k \in 1..Len(R.out.data) : R.out.data[k].cb = callbacks[t]

\* C32: the data callback registered for a task is the one of the caller's
\* last subscribe: no timer and no channel event puts another one in its
\* place, and every data frame and terminal frame goes to it.
C32_ReplacedCallbackGone ==
    \A t \in MainTasks :
        isSubscribed(St, t) =>
            /\ reconnectTimeouts[t].pending => OnlyRegistered(retryFire(St, t), t)
            /\ \A i \in WsId :
                  ws[i].task = t =>
                      /\ ws[i].rearm => OnlyRegistered(rearmFire(St, i), t)
                      /\ ws[i].connectionTimeout =>
                            OnlyRegistered(connectionTimeoutFire(St, i), t)
                      /\ ws[i].readyState = "OPEN" /\ ws[i].handlers =>
                            \A f \in InboundFrames : OnlyRegistered(onmessage(St, i, f), t)
                      /\ ErrorEvent(i) =>
                            OnlyRegistered(
                                onclose(onerror([St EXCEPT !.ws[i].readyState = "CLOSED"], i),
                                        i, AbnormalClosure), t)

\* C33: whenever a task is connected and its current channel is open, both
\* its keepalive interval and its staleness interval are running.
C33_ConnectedHasTimers ==
    \A t \in Task :
        /\ connectionState[t] = "connected"
        /\ connections[t] # NoWsId
        /\ ws[connections[t]].readyState = "OPEN"
        => /\ pingIntervals[t] # NoWsId
           /\ heartbeatCheckIntervals[t]

\* the error event of WebSocket i followed by its close event
TransportFailure(S, i) ==
    onclose(onerror([S EXCEPT !.ws[i].readyState = "CLOSED"], i), i, AbnormalClosure)

\* C34: below maxReconnectAttempts, the error event of a channel followed by
\* its close event counts one attempt and leaves one backoff timer pending,
\* the one armed for that attempt; no second timer that will count another
\* attempt is armed beside it.
C34_FailureCountedOnce ==
    \A i \in WsId :
        ErrorEvent(i) /\ Attempts(St, ws[i].task) < maxReconnectAttempts =>
            LET t == ws[i].task
                R == TransportFailure(St, i)
            IN /\ R.reconnectAttempts[t] = Attempts(St, t) + 1
               /\ R.reconnectTimeouts[t].pending
               /\ R.reconnectTimeouts[t].attempts = Attempts(St, t)
               /\ \A j \in WsId : R.ws[j].rearm => ws[j].rearm

\* C35: handleOnline returns, having created at most one WebSocket for each
\* task that has a data callback, whether or not the task still holds a
\* WebSocket.
C35_OnlineReturns ==
    ~hung =>
        LET R == handleOnline(St) IN
        /\ ~R.hung
        /\ R.out.created <= Cardinality({t \in Task : isSubscribed(St, t)})

\* the tasks that hold a WebSocket, and those of them with a status callback
Held == {t \in Task : connections[t] # NoWsId}

Watched == {t \in Held : connectionStatusCallbacks[t] # NoCb}

\* C36: handleOffline sets the state of every task that holds a WebSocket to
\* disconnected and calls its status callback, if it has one, once with
\* disconnected; it leaves the state of the other tasks, every callback,
\* every WebSocket, every timer and every counter as they were, sends
\* nothing and creates nothing.
C36_OfflineMarksOnly ==
    LET R == handleOffline(St) IN
    /\ \A t \in Held : R.connectionState[t] = "disconnected"
    /\ \A t \in Task \ Held : R.connectionState[t] = connectionState[t]
    /\ Len(R.out.status) = Cardinality(Watched)
    /\ \A t \in Watched :
          \E k \in 1..Len(R.out.status) :
              R.out.status[k] = [cb |-> connectionStatusCallbacks[t], status |-> "disconnected"]
    /\ \A t \in Task : isSubscribed(R, t) = isSubscribed(St, t)
    /\ [R EXCEPT !.connectionState = connectionState, !.out = NoOut] = St
    /\ R.out.sent = <<>> /\ R.out.data = <<>> /\ R.out.created = 0

\* offline has marked a task disconnected whose WebSocket is open, whose
\* keepalive and staleness intervals run, and which has no retry pending
C36_Witness ==
    \E t \in Task :
        /\ t \in Watched /\ isSubscribed(St, t)
        /\ connectionState[t] = "disconnected"
        /\ ws[connections[t]].readyState = "OPEN"
        /\ pingIntervals[t] = connections[t] /\ heartbeatCheckIntervals[t]
        /\ ~reconnectTimeouts[t].pending
        /\ \E u \in Held \ {t} : connectionState[u] = "disconnected"

(* ------------------------------------------- the store's data callback *)
\* isValidTaskStatus
TaskStatuses == {"queued", "downloading", "processing", "complete", "error"}

\* The data callback of startDownload returns at once on ping, pong and
\* connection_status frames; on a frame whose status is a task status and is
\* complete or error it starts a timer that will unsubscribe the task.
SchedulesCleanup(f) ==
    /\ f.type \notin {"ping", "pong", "connection_status"}
    /\ f.status # "" /\ f.status \in TaskStatuses
    /\ f.status \in {"complete", "error"}

\* the timers the data callback starts while one handler of the service runs
Scheduled(R) == Len(SelectSeq(R.out.data, LAMBDA d : SchedulesCleanup(d.frame)))

\* the delayed cleanup without its call of unsubscribeFromTask
cleanupFireOnlyLogs(S, t) == S

\* the body of the cleanup timer
cleanupFire(S, t) == unsubscribeFromTask(S, t)

\* frames of a download: the inbound frames and the two that end it
StoreFrames ==
    InboundFrames \cup {Frame("progress", 0, "complete", TRUE), Frame("error", 0, "error", TRUE)}

\* One handler of the service runs for task t, the store's data callback
\* being the one registered.
StoreRun(R, t) ==
    /\ cleanupTimers[t] + Scheduled(R) <= MaxCleanups
    /\ Run(R)
    /\ cleanupTimers' = [cleanupTimers EXCEPT ![t] = @ + Scheduled(R)]
    /\ UNCHANGED <<retries, statusLog>>

\* startDownload: the task id is new
StoreSubscribe(t, cb, scb) ==
    /\ Untracked(St, t) /\ cleanupTimers[t] = 0
    /\ StoreRun(subscribeToTask(St, t, cb, scb), t)

StoreOpen(i) ==
    /\ ws[i].readyState = "CONNECTING"
    /\ StoreRun(onopen([St EXCEPT !.ws[i].readyState = "OPEN"], i), ws[i].task)

StoreMessage(i, f) ==
    /\ ws[i].readyState = "OPEN"
    /\ StoreRun(onmessage(St, i, f), ws[i].task)

StoreClosed(i, code) ==
    /\ \/ ws[i].readyState = "OPEN" /\ code \in ServerCloseCodes
       \/ ws[i].readyState = "CLOSING" /\ ~ws[i].failing /\ code = ws[i].closeCode
    /\ LET S1 == [St EXCEPT !.ws[i].readyState = "CLOSED"]
       IN StoreRun(IF ws[i].handlers THEN onclose(S1, i, code) ELSE S1, ws[i].task)

StoreFailed(i) ==
    /\ ws[i].readyState \in {"CONNECTING", "OPEN", "CLOSING"}
    /\ StoreRun(IF ws[i].handlers THEN TransportFailure(St, i)
                ELSE [St EXCEPT !.ws[i].readyState = "CLOSED"], ws[i].task)

StoreConnectionTimeout(i) ==
    /\ ws[i].connectionTimeout
    /\ StoreRun(connectionTimeoutFire(St, i), ws[i].task)

StoreRetry(t) ==
    /\ reconnectTimeouts[t].pending
    /\ StoreRun(retryFire(St, t), t)

StoreRearm(i) ==
    /\ ws[i].rearm
    /\ StoreRun(rearmFire(St, i), ws[i].task)

\* the delayed cleanup fires
CleanupTimer(t) ==
    /\ cleanupTimers[t] > 0
    /\ Run(cleanupFire(St, t))
    /\ cleanupTimers' = [cleanupTimers EXCEPT ![t] = @ - 1]
    /\ UNCHANGED <<retries, statusLog>>

\* startDownload of another download unsubscribes every task the store holds
\* as complete or error: task t, whose terminal frame has just been stored
StartOtherDownload(t) ==
    /\ cleanupTimers[t] > 0
    /\ Run(unsubscribeFromTask(St, t))
    /\ UNCHANGED <<retries, statusLog, cleanupTimers>>

StoreNext ==
    \/ \E t \in MainTasks, c \in MainSubscriptions : StoreSubscribe(t, c[1], c[2])
    \/ \E i \in WsId : StoreOpen(i)
    \/ \E i \in WsId, f \in StoreFrames : StoreMessage(i, f)
    \/ \E i \in WsId, code \in ServerCloseCodes \cup {NoStatusCode} : StoreClosed(i, code)
    \/ \E i \in WsId : StoreFailed(i)
    \/ \E i \in WsId : StoreConnectionTimeout(i)
    \/ \E t \in MainTasks : StoreRetry(t)
    \/ \E i \in WsId : StoreRearm(i)
    \/ \E t \in MainTasks : CleanupTimer(t)
    \/ \E t \in MainTasks : StartOtherDownload(t)

\* A timer that is set fires: the event loop keeps running.
StoreSpec == Init /\ [][StoreNext]_vars /\ \A t \in MainTasks : WF_vars(CleanupTimer(t))

\* frames the service hands to the data callback of a subscribed task
DataFrames ==
    {f \in StoreFrames : f.json /\ f.type \notin {"ping", "pong", "hello_ack", "connection_status"}}

\* a frame that arrives on the open channel of task t while a cleanup is
\* pending reaches the data callback, and the task stays subscribed
TrailingDelivered(t) ==
    /\ isSubscribed(St, t) /\ connections[t] # NoWsId
    /\ ws[connections[t]].readyState = "OPEN" /\ ws[connections[t]].handlers
    => \A f \in DataFrames :
          LET R == onmessage(St, connections[t], f) IN
          /\ R.out.data = <<[cb |-> callbacks[t], frame |-> f]>>
          /\ isSubscribed(R, t)

\* C37: a frame with status complete or error that reaches the store's data
\* callback starts a timer, and when the timer has run the task is
\* unsubscribed; until then the task stays subscribed and every data frame
\* that arrives on its open channel is handed to the callback.
C37_CleanupAfterGrace ==
    /\ [](\A t \in MainTasks : TrailingDelivered(t))
    /\ \A t \in MainTasks : (cleanupTimers[t] > 0) ~> ~isSubscribed(St, t)

\* a second terminal frame has reached the data callback while the cleanup
\* of the first was pending; the task is still subscribed on its open channel
C37_Witness ==
    /\ cleanupTimers["t1"] = 2
    /\ isSubscribed(St, "t1")
    /\ connections["t1"] # NoWsId
    /\ ws[connections["t1"]].readyState = "OPEN"
    /\ connectionState["t1"] = "connected"

\* the hello frames among the frames a handler sent
Hellos(R) == SelectSeq(R.out.sent, LAMBDA m : m.frame.type = "hello")

\* C38: onopen sends no hello and arms the 500 ms timer; the timer, when it
\* fires, is spent, and sends one hello frame (type, task_id, timestamp) on
\* its WebSocket if that is still open and none if it has been closed in the
\* meantime; no message, ping tick or staleness check sends a hello; and a
\* hello_ack frame removes the hello-ack timeout and is not handed to the
\* data callback.
C38_OneHello ==
    /\ \A i \in WsId :
          ws[i].readyState = "CONNECTING" /\ ws[i].handlers =>
              LET R == onopen([St EXCEPT !.ws[i].readyState = "OPEN"], i) IN
              Hellos(R) = <<>> /\ R.ws[i].helloTimer
    /\ \A i \in WsId :
          ws[i].helloTimer =>
              LET t == ws[i].task
                  R == helloFire(St, i)
              IN /\ ~R.ws[i].helloTimer
                 /\ ws[i].readyState = "OPEN" =>
                       /\ R.out.sent = <<[ws |-> i,
                                          frame |-> [type |-> "hello",
                                                     timestamp |-> ClientTimestamp,
                                                     task_id |-> t]]>>
                       /\ R.helloAckTimeouts[t]
                 /\ \A rs \in {"CLOSING", "CLOSED"} :
                       LET Q == helloFire([St EXCEPT !.ws[i].readyState = rs], i) IN
                       /\ Q.out.sent = <<>>
                       /\ Q.helloAckTimeouts = helloAckTimeouts
    /\ \A i \in WsId :
          ws[i].readyState = "OPEN" /\ ws[i].handlers =>
              \A f \in InboundFrames :
                  LET t == ws[i].task
                      R == onmessage(St, i, f)
                  IN /\ Hellos(R) = <<>>
                     /\ f.type = "hello_ack" /\ f.json =>
                           ~R.helloAckTimeouts[t] /\ R.out.data = <<>>
    /\ \A t \in Task :
          /\ pingIntervals[t] # NoWsId => Hellos(pingTick(St, t)) = <<>>
          /\ heartbeatCheckIntervals[t] => Hellos(heartbeatCheck(St, t)) = <<>>

\* the hello of the open channel has been sent and its hello-ack timeout is
\* pending, so that a hello_ack that arrives now cancels it
C38_Witness ==
    \E i \in WsId :
        /\ connections["t1"] = i
        /\ ws[i].readyState = "OPEN" /\ ws[i].handlers
        /\ ~ws[i].helloTimer
        /\ helloAckTimeouts["t1"]
        /\ ~onmessage(St, i, Frame("hello_ack", 0, "", TRUE)).helloAckTimeouts["t1"]
====
